---- MODULE Spec2Model ----
(***************************************************************************)
(* A model of the tool-orchestration loop of the RAG chatbot backend:      *)
(*   backend/ai_generator.py  AIGenerator (generate_response,              *)
(*                            _handle_tool_execution, _execute_tools)      *)
(*   backend/search_tools.py  CourseSearchTool, CourseOutlineTool,         *)
(*                            ToolManager                                  *)
(* The LLM gateway (anthropic client) and the vector store are external:   *)
(* what they answer is a nondeterministic choice from small sets.          *)
(***************************************************************************)
EXTENDS Integers, Sequences, FiniteSets, TLC

\* Largest max_rounds argument a run is started with.
MaxRounds == 2

(***************************************************************************)
(* Python values.  An Optional value is a record: None, or Some(v).        *)
(***************************************************************************)
None == [some |-> FALSE]
Some(v) == [some |-> TRUE, v |-> v]

\* Python truthiness of an Optional[str] and of an Optional[int].
TruthyStr(o) == o.some /\ o.v # ""
TruthyInt(o) == o.some /\ o.v # 0

\* The outcome of a call: a returned value or a raised exception.
Ok(v) == [raised |-> FALSE, value |-> v]
Raise(e) == [raised |-> TRUE, exc |-> e]

\* dict.get(key) of a dict with string keys: None when the key is absent.
Get(d, key) == IF key \in DOMAIN d THEN Some(d[key]) ELSE None

\* sep.join(seq) over Python strings.
RECURSIVE JoinWith(_, _)
JoinWith(sep, seq) ==
    IF seq = <<>> THEN ""
    ELSE IF Len(seq) = 1 THEN seq[1]
    ELSE seq[1] \o sep \o JoinWith(sep, Tail(seq))

(***************************************************************************)
(* Binding of **kwargs to a Python signature: a TypeError when a required  *)
(* parameter is missing or a keyword is not a parameter.                   *)
(***************************************************************************)
BindsTo(kwargs, required, optional) ==
    /\ required \subseteq DOMAIN kwargs
    /\ DOMAIN kwargs \subseteq (required \cup optional)

(***************************************************************************)
(* The vector store, as one tool execution sees it.  A behaviour of the    *)
(* store is a record of the outcomes of its three operations:              *)
(*   search  : Raise(..) or Ok(SearchResults)                              *)
(*   link    : Raise(..) or Ok(links) of get_lesson_link, links giving the *)
(*             Optional link of every lesson number                        *)
(*   courses : Raise(..) or Ok(list) of get_all_courses_metadata           *)
(***************************************************************************)
SearchResults(documents, metadata, error) ==
    [documents |-> documents, metadata |-> metadata, error |-> error]

\* SearchResults.is_empty()
is_empty(results) == Len(results.documents) = 0

Doc1 == "chunk one"
Doc2 == "chunk two"
MetaLesson1 == [course_title |-> "Test Course", lesson_number |-> 1]
MetaNoLesson == [course_title |-> "Test Course"]
LessonLink == "https://example.com/lesson1"

\* The lesson numbers of the stored chunks, and what get_lesson_link gives
\* for each: a link for every lesson, for none, or for lesson 1 only (an
\* empty string for lesson 0, None for lesson 2).
LessonNumbers == 0..2
Linked == [n \in LessonNumbers |-> Some(LessonLink)]
NoLinks == [n \in LessonNumbers |-> None]
SomeLinks == [n \in LessonNumbers |->
                IF n = 1 THEN Some(LessonLink) ELSE IF n = 0 THEN Some("") ELSE None]

\* Course titles are sequences of characters: the outline tool lower-cases
\* them and searches them for substrings.  The lesson_number of a stored
\* lesson is Some(n), or None when the stored value is null.
MCPTitle == <<"M", "C", "P", ":", " ", "A", "p", "p", "s">>
MCPCourse ==
    [title |-> MCPTitle,
     instructor |-> "Ann",
     course_link |-> <<"h","t","t","p","s",":","/","/","m","c","p">>,
     lessons |-> << [lesson_number |-> Some(2), lesson_title |-> "Second"],
                    [lesson_number |-> Some(1), lesson_title |-> "First"] >>]

StoreBehaviours ==
    { [search |-> Ok(SearchResults(<<Doc1, Doc2>>, <<MetaLesson1, MetaNoLesson>>, None)),
       link |-> Ok(Linked), courses |-> Ok(<<MCPCourse>>)],
      [search |-> Ok(SearchResults(<<>>, <<>>, Some("Search error: boom"))),
       link |-> Ok(NoLinks), courses |-> Ok(<<>>)],
      [search |-> Ok(SearchResults(<<>>, <<>>, None)),
       link |-> Ok(NoLinks), courses |-> Ok(<<MCPCourse>>)],
      [search |-> Ok(SearchResults(<<Doc1>>, <<MetaLesson1>>, None)),
       link |-> Raise("boom"), courses |-> Raise("Database error")],
      [search |-> Raise("boom"), link |-> Ok(NoLinks), courses |-> Ok(<<>>)] }

(***************************************************************************)
(* CourseSearchTool (search_tools.py 21-123).  An execution yields          *)
(*   out          : Ok(string) or Raise(exception)                         *)
(*   last_sources : the tool's last_sources after the execution            *)
(***************************************************************************)
SearchToolName == "search_course_content"

\* Mutant: the lesson is tested by truthiness, lesson 0 gets no mention.
Header_IfLessonNum(meta) ==
    "[" \o (IF "course_title" \in DOMAIN meta THEN meta.course_title ELSE "unknown")
        \o (IF TruthyInt(Get(meta, "lesson_number"))
            THEN " - Lesson " \o ToString(meta.lesson_number) ELSE "")
        \o "]"

\* The header "[<course title>[ - Lesson <n>]]" of one document.
Header(meta) ==
    LET course_title == IF "course_title" \in DOMAIN meta
                        THEN meta.course_title ELSE "unknown"
        lesson_num == Get(meta, "lesson_number")
    IN "[" \o course_title
           \o (IF lesson_num.some THEN " - Lesson " \o ToString(lesson_num.v) ELSE "")
           \o "]"

\* Mutant: whatever get_lesson_link returned that is not None is appended.
Source_IfNotNone(meta, lesson_link) ==
    (IF "course_title" \in DOMAIN meta THEN meta.course_title ELSE "unknown")
      \o (IF "lesson_number" \in DOMAIN meta
          THEN " - Lesson " \o ToString(meta.lesson_number)
                 \o (IF lesson_link.some THEN "|" \o lesson_link.v ELSE "")
          ELSE "")

\* The provenance entry of one document, given what get_lesson_link returned.
Source(meta, lesson_link) ==
    LET course_title == IF "course_title" \in DOMAIN meta
                        THEN meta.course_title ELSE "unknown"
        lesson_num == Get(meta, "lesson_number")
    IN course_title
         \o (IF lesson_num.some
             THEN " - Lesson " \o ToString(lesson_num.v)
                    \o (IF TruthyStr(lesson_link) THEN "|" \o lesson_link.v ELSE "")
             ELSE "")

\* zip(results.documents, results.metadata) stops at the shorter list.
ZipLen(results) ==
    IF Len(results.documents) <= Len(results.metadata)
    THEN Len(results.documents) ELSE Len(results.metadata)

\* Whether the loop of _format_results calls get_lesson_link at all.
AsksLessonLink(results) ==
    \E i \in 1..ZipLen(results) : "lesson_number" \in DOMAIN results.metadata[i]

\* Line 112: the arguments of the calls of get_lesson_link the loop makes
\* over the first n documents, in order.
LinkCalls(results, n) ==
    LET asking == SelectSeq(SubSeq(results.metadata, 1, n),
                            LAMBDA meta : "lesson_number" \in DOMAIN meta)
    IN [k \in 1..Len(asking) |->
          [course_title |-> IF "course_title" \in DOMAIN asking[k]
                            THEN asking[k].course_title ELSE "unknown",
           lesson_num |-> asking[k].lesson_number]]

\* Lines 92-123.  link_calls are the calls of get_lesson_link made: when the
\* store raises, the first call ends the execution.
format_results(results, store, last_sources) ==
    IF AsksLessonLink(results) /\ store.link.raised
    THEN [out |-> Raise(store.link.exc), last_sources |-> last_sources,
          link_calls |-> SubSeq(LinkCalls(results, ZipLen(results)), 1, 1)]
    ELSE LET n == ZipLen(results)
             lesson_link == [i \in 1..n |->
                               IF "lesson_number" \in DOMAIN results.metadata[i]
                               THEN store.link.value[results.metadata[i].lesson_number]
                               ELSE None]
             formatted == [i \in 1..n |->
                             Header(results.metadata[i]) \o "\n" \o results.documents[i]]
             sources == [i \in 1..n |-> Source(results.metadata[i], lesson_link[i])]
         IN [out |-> Ok(JoinWith("\n\n", formatted)), last_sources |-> sources,
             link_calls |-> LinkCalls(results, n)]

\* The message of an empty result, naming the filters that are truthy.
EmptyMessage(course_name, lesson_number) ==
    "No relevant content found"
      \o (IF TruthyStr(course_name) THEN " in course '" \o course_name.v \o "'" ELSE "")
      \o (IF TruthyInt(lesson_number)
          THEN " in lesson " \o ToString(lesson_number.v) ELSE "")
      \o "."

\* Mutant: an error is reported only when the result holds no document.
HasError_OnlyWhenEmpty(results) == TruthyStr(results.error) /\ is_empty(results)

\* Line 77: if results.error
HasError(results) == TruthyStr(results.error)

\* Lines 53-90.
CourseSearchTool_execute(kwargs, store, last_sources) ==
    IF ~BindsTo(kwargs, {"query"}, {"course_name", "lesson_number"})
    THEN [out |-> Raise("TypeError"), last_sources |-> last_sources,
          link_calls |-> <<>>]
    ELSE IF store.search.raised
    THEN [out |-> Raise(store.search.exc), last_sources |-> last_sources,
          link_calls |-> <<>>]
    ELSE LET results == store.search.value
         IN IF HasError(results)
            THEN [out |-> Ok(results.error.v), last_sources |-> last_sources,
                  link_calls |-> <<>>]
            ELSE IF is_empty(results)
            THEN [out |-> Ok(EmptyMessage(Get(kwargs, "course_name"),
                                          Get(kwargs, "lesson_number"))),
                  last_sources |-> last_sources, link_calls |-> <<>>]
            ELSE format_results(results, store, last_sources)

(***************************************************************************)
(* CourseOutlineTool (search_tools.py 126-226).  Titles and links are      *)
(* sequences of characters; the rendered outline is a string.              *)
(***************************************************************************)
OutlineToolName == "get_course_outline"

UpperCase == <<"A","B","C","D","E","F","G","H","I","J","K","L","M",
               "N","O","P","Q","R","S","T","U","V","W","X","Y","Z">>
LowerCase == <<"a","b","c","d","e","f","g","h","i","j","k","l","m",
               "n","o","p","q","r","s","t","u","v","w","x","y","z">>

\* str.lower(), character by character.
LowerChar(c) ==
    IF \E i \in 1..Len(UpperCase) : UpperCase[i] = c
    THEN LowerCase[CHOOSE i \in 1..Len(UpperCase) : UpperCase[i] = c]
    ELSE c
Lower(str) == [i \in 1..Len(str) |-> LowerChar(str[i])]

\* The characters of a title as one string.
Chars(str) == JoinWith("", str)

\* sub in str
Contains(sub, str) ==
    \E i \in 1..(Len(str) - Len(sub) + 1) : SubSeq(str, i, i + Len(sub) - 1) = sub

\* str.replace(old, ""), left to right.
RECURSIVE Remove(_, _)
Remove(str, old) ==
    IF Len(str) < Len(old) \/ old = <<>> THEN str
    ELSE IF SubSeq(str, 1, Len(old)) = old
    THEN Remove(SubSeq(str, Len(old) + 1, Len(str)), old)
    ELSE <<Head(str)>> \o Remove(Tail(str), old)

\* The first course, in iteration order, whose flag is set; None when none is.
FirstCourse(courses, flags) ==
    IF \E i \in 1..Len(courses) : flags[i]
    THEN Some(courses[CHOOSE i \in 1..Len(courses) :
                        /\ flags[i]
                        /\ \A j \in 1..(i - 1) : ~flags[j]])
    ELSE None

\* Mutant: one pass, the first course that matches either way is taken.
find_best_course_match_OnePass(search_title, courses) ==
    LET search_lower == Lower(search_title)
        untitled == [i \in 1..Len(courses) |-> "title" \notin DOMAIN courses[i]]
        either == [i \in 1..Len(courses) |->
                     /\ ~untitled[i]
                     /\ \/ Contains(search_lower, Lower(courses[i].title))
                        \/ Contains(Lower(courses[i].title), search_lower)]
    IN IF \E i \in 1..Len(courses) : untitled[i]
       THEN Raise("'title'")
       ELSE Ok(FirstCourse(courses, either))

\* Lines 178-197.  course["title"] raises KeyError, whose text is 'title',
\* at the first course without a title that a loop reaches.
find_best_course_match(search_title, courses) ==
    LET search_lower == Lower(search_title)
        untitled == [i \in 1..Len(courses) |-> "title" \notin DOMAIN courses[i]]
        exact == [i \in 1..Len(courses) |->
                    /\ \A j \in 1..i : ~untitled[j]
                    /\ Lower(courses[i].title) = search_lower]
        partial == [i \in 1..Len(courses) |->
                      /\ ~untitled[i]
                      /\ \/ Contains(search_lower, Lower(courses[i].title))
                         \/ Contains(Lower(courses[i].title), search_lower)]
    IN IF FirstCourse(courses, exact).some
       THEN Ok(FirstCourse(courses, exact))
       ELSE IF \E i \in 1..Len(courses) : untitled[i]
       THEN Raise("'title'")
       ELSE Ok(FirstCourse(courses, partial))

\* lesson.get("lesson_number", 0): the key of sorted().
LessonKey(lesson) ==
    IF "lesson_number" \in DOMAIN lesson THEN lesson.lesson_number ELSE Some(0)

RECURSIVE InsertLesson(_, _)
InsertLesson(sorted, lesson) ==
    IF sorted = <<>> THEN <<lesson>>
    ELSE IF LessonKey(lesson).v < LessonKey(Head(sorted)).v
    THEN <<lesson>> \o sorted
    ELSE <<Head(sorted)>> \o InsertLesson(Tail(sorted), lesson)

\* sorted(lessons, key=...) over integer keys: a stable insertion sort.
RECURSIVE SortLessons(_)
SortLessons(lessons) ==
    IF lessons = <<>> THEN <<>>
    ELSE InsertLesson(SortLessons(SubSeq(lessons, 1, Len(lessons) - 1)),
                      lessons[Len(lessons)])

\* The name Python gives the type of a key.
TypeName(key) == IF key.some THEN "int" ELSE "NoneType"

\* Mutant: the lessons stay in stored order.
sorted_lessons_Stored(lessons) == Ok(lessons)

\* Line 218: sorted() compares the keys of the second and the first lesson
\* first; a key that is None cannot be compared, and the TypeError names the
\* two types.  The lessons of the model hold a None only among the first two.
sorted_lessons(lessons) ==
    IF Len(lessons) >= 2 /\ (~LessonKey(lessons[1]).some \/ ~LessonKey(lessons[2]).some)
    THEN Raise("'<' not supported between instances of '"
               \o TypeName(LessonKey(lessons[2])) \o "' and '"
               \o TypeName(LessonKey(lessons[1])) \o "'")
    ELSE Ok(SortLessons(lessons))

\* Mutant: a lesson is listed when it has a number or a title.
LessonLine_Either(lesson) ==
    IF Get(lesson, "lesson_number").some \/ Get(lesson, "lesson_title").some
    THEN (IF "lesson_number" \in DOMAIN lesson /\ lesson.lesson_number.some
          THEN ToString(lesson.lesson_number.v) ELSE "None")
           \o ". " \o (IF "lesson_title" \in DOMAIN lesson THEN lesson.lesson_title ELSE "None")
           \o "\n"
    ELSE ""

\* Lines 219-222: the line of one lesson: empty unless its number is not
\* None and its title is truthy.
LessonLine(lesson) ==
    LET lesson_num == IF "lesson_number" \in DOMAIN lesson
                      THEN lesson.lesson_number ELSE None
        lesson_title == Get(lesson, "lesson_title")
    IN IF lesson_num.some /\ TruthyStr(lesson_title)
       THEN ToString(lesson_num.v) \o ". " \o lesson_title.v \o "\n"
       ELSE ""

\* The character U+0060, which a TLA+ string cannot hold.
Backtick == "<backtick>"

\* Lines 213-224: the section of the lessons.
LessonSection(lessons, sorted) ==
    "\n**Course Lessons:**\n"
      \o (IF lessons # <<>>
          THEN JoinWith("", [i \in 1..Len(sorted) |-> LessonLine(sorted[i])])
          ELSE "No lessons found for this course.\n")

\* Lines 201-211: the title, the instructor and the link of the course.
OutlineHead(course) ==
    LET instructor == Get(course, "instructor")
        course_link == Get(course, "course_link")
    IN "**" \o Chars(course.title) \o "**\n\n"
         \o (IF TruthyStr(instructor)
             THEN "**Instructor:** " \o instructor.v \o "\n" ELSE "")
         \o (IF course_link.some /\ course_link.v # <<>>
             THEN "**Course URL:** " \o Backtick
                    \o Chars(Remove(Remove(course_link.v,
                                           <<"h","t","t","p","s",":","/","/">>),
                                    <<"h","t","t","p",":","/","/">>))
                    \o Backtick \o "\n"
             ELSE "")

\* Lines 199-226: the outline, or the TypeError of sorted().
format_course_outline(course) ==
    LET lessons == IF "lessons" \in DOMAIN course THEN course.lessons ELSE <<>>
        sorted == sorted_lessons(lessons)
    IN IF lessons # <<>> /\ sorted.raised
       THEN Raise(sorted.exc)
       ELSE Ok(OutlineHead(course)
                 \o LessonSection(lessons, IF lessons # <<>> THEN sorted.value ELSE <<>>))

\* Mutant: only the first stored course is listed.
NoMatchMessage_FirstOnly(course_title, all_courses) ==
    "No course found matching '" \o Chars(course_title)
      \o "'. Available courses: " \o Chars(all_courses[1].title)

\* Line 170: the message when no course matches.
NoMatchMessage(course_title, all_courses) ==
    "No course found matching '" \o Chars(course_title)
      \o "'. Available courses: "
      \o JoinWith(", ", [i \in 1..Len(all_courses) |-> Chars(all_courses[i].title)])

\* Mutant: the cause alone is returned, without what precedes it.
ErrorMessage_Bare(cause) == cause

\* Lines 175-176: what the except clause returns.
ErrorMessage(cause) == "Error retrieving course outline: " \o cause

\* Lines 149-176.  The outline tool keeps no provenance: last_sources is the
\* search tool's.
CourseOutlineTool_execute(kwargs, store, last_sources) ==
    IF ~BindsTo(kwargs, {"course_title"}, {})
    THEN [out |-> Raise("TypeError"), last_sources |-> last_sources]
    ELSE LET course_title == kwargs.course_title
             text ==
               IF store.courses.raised
               THEN ErrorMessage(store.courses.exc)
               ELSE LET all_courses == store.courses.value
                        \* the match is bound once, as the local variable is
                        best_match == CHOOSE m \in {find_best_course_match(t, all_courses) :
                                                      t \in {course_title}} : TRUE
                    IN IF all_courses = <<>>
                       THEN "No courses found in the database."
                       ELSE IF best_match.raised
                       THEN ErrorMessage(best_match.exc)
                       ELSE IF ~best_match.value.some
                       THEN NoMatchMessage(course_title, all_courses)
                       ELSE LET outline ==
                                  CHOOSE o \in {format_course_outline(course) :
                                                  course \in {best_match.value.v}} : TRUE
                            IN IF outline.raised THEN ErrorMessage(outline.exc)
                               ELSE outline.value
         IN [out |-> Ok(text), last_sources |-> last_sources]

(***************************************************************************)
(* ToolManager (search_tools.py 229-266).  self.tools is a dict in         *)
(* insertion order: a sequence of records [name, tool], tool being the     *)
(* class of the registered tool.                                           *)
(***************************************************************************)
\* The classes of tool a caller may hand to register_tool: the two tools of
\* search_tools.py, and two whose definition declares no name (the key is
\* missing, or its value is the empty string).
\* StubTool is a tool of the caller, like the tests' mock_tool: its definition
\* takes the search tool's name and its execute returns a fixed string.
ToolClasses ==
    {"CourseSearchTool", "CourseOutlineTool", "NamelessTool", "EmptyNameTool", "StubTool"}

get_tool_definition(tool) ==
    IF tool = "CourseSearchTool"
    THEN [name |-> SearchToolName, required |-> <<"query">>]
    ELSE IF tool = "CourseOutlineTool"
    THEN [name |-> OutlineToolName, required |-> <<"course_title">>]
    ELSE IF tool = "EmptyNameTool"
    THEN [name |-> "", required |-> <<>>]
    ELSE IF tool = "StubTool"
    THEN [name |-> SearchToolName, required |-> <<>>]
    ELSE [required |-> <<>>]

Registered(registry) == {registry[i].name : i \in 1..Len(registry)}

\* self.tools[tool_name] = tool: a new key goes last, an old key keeps its place.
\* Mutant: a name that is registered keeps its tool.
SetItem_KeepsFirst(registry, tool_name, tool) ==
    IF tool_name \in Registered(registry)
    THEN registry
    ELSE Append(registry, [name |-> tool_name, tool |-> tool])

SetItem(registry, tool_name, tool) ==
    IF tool_name \in Registered(registry)
    THEN [i \in 1..Len(registry) |->
            IF registry[i].name = tool_name
            THEN [name |-> tool_name, tool |-> tool] ELSE registry[i]]
    ELSE Append(registry, [name |-> tool_name, tool |-> tool])

\* Mutant: the test of line 239 is lost, a tool is stored under whatever
\* its definition gives.
register_tool_Unchecked(registry, tool) ==
    LET tool_name == Get(get_tool_definition(tool), "name")
    IN [out |-> Ok("None"),
        tools |-> SetItem(registry, IF tool_name.some THEN tool_name.v ELSE "None", tool)]

\* Lines 235-241: out is the outcome of the call, tools the registry after it.
register_tool(registry, tool) ==
    LET tool_name == Get(get_tool_definition(tool), "name")
    IN IF ~TruthyStr(tool_name)
       THEN [out |-> Raise("ValueError"), tools |-> registry]
       ELSE [out |-> Ok("None"), tools |-> SetItem(registry, tool_name.v, tool)]

\* Mutant: the definitions come out last registered first.
get_tool_definitions_Reversed(registry) ==
    [i \in 1..Len(registry) |-> get_tool_definition(registry[Len(registry) + 1 - i].tool)]

\* Lines 243-245: one definition per value of self.tools, in dict order.
get_tool_definitions(registry) ==
    [i \in 1..Len(registry) |-> get_tool_definition(registry[i].tool)]

Lookup(registry, tool_name) ==
    registry[CHOOSE i \in 1..Len(registry) : registry[i].name = tool_name].tool

\* An execution through the manager yields out and last_sources as a tool
\* does, and ran: the class of the tool whose execute was called, if any.
NotFoundMessage(tool_name) == "Tool '" \o tool_name \o "' not found"

\* Line 252: self.tools[tool_name].execute(**kwargs)
RunTool(registry, tool_name, kwargs, store, sources) ==
    LET tool == Lookup(registry, tool_name)
        r == IF tool = "CourseSearchTool"
             THEN CourseSearchTool_execute(kwargs, store, sources)
             ELSE IF tool = "CourseOutlineTool"
             THEN CourseOutlineTool_execute(kwargs, store, sources)
             ELSE [out |-> Ok("Tool result"), last_sources |-> sources]
    IN [out |-> r.out, last_sources |-> r.last_sources, ran |-> Some(tool)]

\* Mutant: the lookup without the membership test of line 249.
execute_tool_KeyError(registry, tool_name, kwargs, store, sources) ==
    IF tool_name \notin Registered(registry)
    THEN [out |-> Raise("KeyError"), last_sources |-> sources, ran |-> None]
    ELSE RunTool(registry, tool_name, kwargs, store, sources)

\* Mutant: a tool that throws takes the recorded sources with it.
execute_tool_Atomic(registry, tool_name, kwargs, store, sources) ==
    IF tool_name \notin Registered(registry)
    THEN [out |-> Ok(NotFoundMessage(tool_name)), last_sources |-> sources, ran |-> None]
    ELSE LET r == RunTool(registry, tool_name, kwargs, store, sources)
         IN IF r.out.raised THEN [r EXCEPT !.last_sources = <<>>] ELSE r

execute_tool(registry, tool_name, kwargs, store, sources) ==
    IF tool_name \notin Registered(registry)
    THEN [out |-> Ok(NotFoundMessage(tool_name)), last_sources |-> sources, ran |-> None]
    ELSE RunTool(registry, tool_name, kwargs, store, sources)

\* hasattr(tool, "last_sources"): only the search tool tracks provenance.
TracksSources(tool) == tool = "CourseSearchTool"

\* Mutant: only the first entry of the list is returned.
get_last_sources_First(registry, sources) ==
    IF \E i \in 1..Len(registry) : TracksSources(registry[i].tool) /\ sources # <<>>
    THEN SubSeq(sources, 1, 1)
    ELSE <<>>

\* Lines 254-260: the first non-empty last_sources among the registered
\* tools, or the empty list.  sources is the search tool's last_sources.
get_last_sources(registry, sources) ==
    IF \E i \in 1..Len(registry) : TracksSources(registry[i].tool) /\ sources # <<>>
    THEN sources
    ELSE <<>>

\* Mutant: reset_sources clears nothing.
reset_sources_Noop(registry, sources) == sources

\* Lines 262-266: the last_sources of every registered tool that has one
\* becomes the empty list.  The value is the search tool's last_sources after.
reset_sources(registry, sources) ==
    IF \E i \in 1..Len(registry) : TracksSources(registry[i].tool)
    THEN <<>>
    ELSE sources

\* The provenance entries one execution produces: what it leaves in a
\* provenance list that was empty before it.
Produced(registry, call, store) ==
    execute_tool(registry, call.name, call.input, store, <<>>).last_sources

(***************************************************************************)
(* The LLM gateway.  A response is [stop_reason, content]; a content block *)
(* is a text block or a tool_use block.  The responses the gateway may     *)
(* give to any call are the shapes below.                                  *)
(***************************************************************************)
TextBlock(text) == [type |-> "text", text |-> text]
ToolUseBlock(id, call) ==
    [type |-> "tool_use", id |-> id, name |-> call.name, input |-> call.input]

SearchCall == [name |-> SearchToolName, input |-> [query |-> "mcp basics"]]
\* a search request without its required query: execute(**input) cannot bind
BadSearchCall == [name |-> SearchToolName, input |-> [course_name |-> "MCP"]]
OutlineCall == [name |-> OutlineToolName, input |-> [course_title |-> <<"m", "c", "p">>]]
\* a tool name the model made up
BogusCall == [name |-> "bogus_tool", input |-> [query |-> "mcp basics"]]

Response(stop_reason, content) == [stop_reason |-> stop_reason, content |-> content]

TextResponses ==
    { Response("end_turn", <<TextBlock("answer a")>>),
      Response("end_turn", <<TextBlock("answer b")>>),
      \* malformed: no content block at all
      Response("end_turn", <<>>) }

ToolUseResponses ==
    { Response("tool_use", <<ToolUseBlock("toolu_1", SearchCall)>>),
      Response("tool_use", <<TextBlock("looking a"), ToolUseBlock("toolu_1", SearchCall)>>),
      Response("tool_use", <<TextBlock("looking b"), ToolUseBlock("toolu_1", BogusCall)>>),
      Response("tool_use", <<ToolUseBlock("toolu_1", SearchCall),
                             ToolUseBlock("toolu_2", OutlineCall)>>),
      Response("tool_use", <<TextBlock("looking b"),
                             ToolUseBlock("toolu_1", SearchCall),
                             ToolUseBlock("toolu_2", BadSearchCall)>>),
      Response("tool_use", <<ToolUseBlock("toolu_1", BadSearchCall)>>),
      Response("tool_use", <<ToolUseBlock("toolu_1", BadSearchCall),
                             ToolUseBlock("toolu_2", SearchCall)>>),
      \* stop_reason tool_use without any tool_use block
      Response("tool_use", <<TextBlock("looking a")>>) }

GatewayResponses == TextResponses \cup ToolUseResponses

\* response.content[0].text: an IndexError without a first block, an
\* AttributeError when the first block is a tool_use block.
Content0Text(response) ==
    IF response.content = <<>> THEN Raise("IndexError")
    ELSE IF "text" \in DOMAIN response.content[1]
    THEN Ok(response.content[1].text)
    ELSE Raise("AttributeError")

\* The tool_use blocks of a response, in order.
ToolUses(response) == SelectSeq(response.content, LAMBDA b : b.type = "tool_use")

(***************************************************************************)
(* AIGenerator (ai_generator.py).                                          *)
(***************************************************************************)
SYSTEM_PROMPT == "SYSTEM_PROMPT"
Sentinel == "Unable to process response"

Queries == {"What is MCP?"}
\* no history, an empty one, and one exchange
Histories == {None, Some(""), Some("User: hi\nAssistant: hello")}

VARIABLES
    pc,                   \* where the run stands: idle, first_call, loop,
                          \* execute, next_call, final_call, done, raised
    query, conversation_history, tools, tool_manager, max_rounds,
                          \* the arguments of generate_response
    api_params,           \* generate_response: the parameters of the first call
    messages,             \* _handle_tool_execution: the turns so far
    current_response,     \* _handle_tool_execution: the last response read
    round_count,          \* _handle_tool_execution: rounds entered
    tool_results,         \* _execute_tools: the results of the batch so far
    block,                \* _execute_tools: index of the next content block
    calls,                \* the requests sent to the gateway in this run
    responses,            \* the responses the gateway gave in this run
    dispatches,           \* the execute_tool calls made in this run
    result,               \* what generate_response returned or raised
    base_params,          \* AIGenerator.base_params
    manager_tools,        \* ToolManager.tools
    last_sources,         \* CourseSearchTool.last_sources
    ops,                  \* the calls a client made on the ToolManager directly
    runs                  \* the queries in progress when several run at once

args == <<query, conversation_history, tools, tool_manager, max_rounds>>
locals == <<api_params, messages, current_response, round_count, tool_results, block>>
objects == <<base_params, manager_tools, last_sources>>
clients == <<ops, runs>>
vars == <<pc, args, locals, calls, responses, dispatches, result, objects, clients>>

\* A dict as a function from its keys; d1 @@ d2 keeps d1 where both have a key.
Update(d, more) == more @@ d

\* AIGenerator.__init__ (ai_generator.py 49-58)
InitBaseParams == [model |-> "claude", temperature |-> 0, max_tokens |-> 800]

\* The queries that may be in progress at once, and a query not yet begun.
Runs == {"a", "b"}
NotStarted == [pc |-> "idle", executions |-> 0, written |-> {}, read |-> None]

\* No query is in progress and no client has called the manager yet.
Quiet ==
    /\ pc = "idle"
    /\ query = None /\ conversation_history = None /\ tools = None
    /\ tool_manager = FALSE /\ max_rounds = 0
    /\ api_params = None /\ messages = <<>> /\ current_response = None
    /\ round_count = 0 /\ tool_results = <<>> /\ block = 0
    /\ calls = <<>> /\ responses = <<>> /\ dispatches = <<>> /\ result = None
    /\ base_params = InitBaseParams
    /\ last_sources = <<>>
    /\ ops = <<>>
    /\ runs = [c \in Runs |-> NotStarted]

\* The application at startup: both tools are registered with the manager.
Init ==
    /\ Quiet
    /\ manager_tools = register_tool(register_tool(<<>>, "CourseSearchTool").tools,
                                     "CourseOutlineTool").tools

\* ToolManager.__init__ (search_tools.py 232-233): a manager of its own,
\* with no tool registered yet.
ManagerInit ==
    /\ Quiet
    /\ manager_tools = <<>>

\* Mutant: any history that is not None is folded in, an empty one too.
SystemContent_IfNotNone(history) ==
    IF history.some
    THEN SYSTEM_PROMPT \o "\n\nPrevious conversation:\n" \o history.v
    ELSE SYSTEM_PROMPT

\* ai_generator.py 79-84
SystemContent(history) ==
    IF TruthyStr(history)
    THEN SYSTEM_PROMPT \o "\n\nPrevious conversation:\n" \o history.v
    ELSE SYSTEM_PROMPT

\* Mutant: the parameters of a call are built in self.base_params itself.
Spread_InPlace(params, built) == built

\* Lines 87, 145 and 154: {**self.base_params, ...} builds a new dict; this
\* is self.base_params after it, given the dict that was built.
Spread(params, built) == params

\* ai_generator.py 86-96: the parameters of the first call
FirstParams(q, history, t) ==
    LET plain == Update(base_params,
                        [messages |-> <<[role |-> "user", content |-> q]>>,
                         system |-> SystemContent(history)])
    IN IF t.some /\ t.v # <<>>
       THEN Update(plain, [tools |-> t, tool_choice |-> [type |-> "auto"]])
       ELSE plain

\* Mutant: the first block itself is returned, not its text.
ResponseText_Block(response) ==
    IF Content0Text(response).raised THEN Sentinel
    ELSE "TextBlock(text='" \o Content0Text(response).value \o "')"

\* ai_generator.py 106-110 and 168-172: the text of the first block, or the
\* sentinel on an AttributeError or IndexError.
ResponseText(response) ==
    IF Content0Text(response).raised THEN Sentinel ELSE Content0Text(response).value

\* Mutant: the loop goes on for as long as the model asks for tools.
LoopCondition_Unbounded(rounds, response) == response.stop_reason = "tool_use"

\* ai_generator.py 129: the loop condition
\* Mutant: the loop runs until the counter equals max_rounds.
LoopCondition_UntilEqual(rounds, response) ==
    rounds # max_rounds /\ response.stop_reason = "tool_use"

LoopCondition(rounds, response) ==
    rounds < max_rounds /\ response.stop_reason = "tool_use"

\* Mutant: an off-by-one in the test of the last round.
IsLastRound_OffByOne(rounds) == rounds > max_rounds

\* Mutant: every round is taken for the last one.
IsLastRound_Always(rounds) == TRUE

\* ai_generator.py 143: whether the round just completed was the last one
IsLastRound(rounds) == rounds >= max_rounds

\* Mutant: the round context counts the rounds that remain, not the maximum.
build_round_system_prompt_Remaining(base_system, current_round, rounds) ==
    base_system \o "\n\nRound " \o ToString(current_round) \o " of "
      \o ToString(rounds - current_round)
      \o ": You can make additional tool calls if needed for complex queries requiring multiple searches or comparisons."

\* ai_generator.py 202-219
build_round_system_prompt(base_system, current_round, rounds) ==
    IF current_round < rounds
    THEN base_system \o "\n\nRound " \o ToString(current_round) \o " of "
           \o ToString(rounds)
           \o ": You can make additional tool calls if needed for complex queries requiring multiple searches or comparisons."
    ELSE base_system \o "\n\nFinal round (" \o ToString(current_round) \o " of "
           \o ToString(rounds)
           \o "): This is your last opportunity to use tools before providing your final answer."

\* ai_generator.py 144-148: the parameters of the final call
FinalParams(turns) ==
    Update(base_params, [messages |-> turns, system |-> api_params.system])

\* ai_generator.py 153-159: the parameters of the call after a round
\* Mutant: each round's prompt is built on the prompt of the call before.
NextParams_Accumulating(turns) ==
    Update(base_params,
           [messages |-> turns,
            system |-> build_round_system_prompt(calls[Len(calls)].system, round_count,
                                                 max_rounds),
            tools |-> IF "tools" \in DOMAIN api_params THEN api_params.tools ELSE None,
            tool_choice |-> [type |-> "auto"]])

NextParams(turns) ==
    Update(base_params,
           [messages |-> turns,
            system |-> build_round_system_prompt(api_params.system, round_count, max_rounds),
            tools |-> IF "tools" \in DOMAIN api_params THEN api_params.tools ELSE None,
            tool_choice |-> [type |-> "auto"]])

\* The return of generate_response with a value, and its exit by an exception.
Return(value) == /\ result' = Ok(value)
                 /\ pc' = "done"
Propagate(exc) == /\ result' = Raise(exc)
                  /\ pc' = "raised"

(***************************************************************************)
(* generate_response (ai_generator.py 60-110)                              *)
(***************************************************************************)
\* The caller's tools argument: nothing, or the manager's definitions.
ToolsArguments == {None, Some(get_tool_definitions(manager_tools))}

\* Lines 79-99: build the parameters and send the first call.
Start(q, history, t, tm, rounds) ==
    /\ pc = "idle"
    /\ query' = q /\ conversation_history' = history /\ tools' = t
    /\ tool_manager' = tm /\ max_rounds' = rounds
    /\ api_params' = FirstParams(q, history, t)
    /\ calls' = <<FirstParams(q, history, t)>>
    /\ base_params' = Spread(base_params, FirstParams(q, history, t))
    /\ pc' = "first_call"
    /\ UNCHANGED <<messages, current_response, round_count, tool_results, block,
                   responses, dispatches, result, manager_tools, last_sources>>
    /\ UNCHANGED clients

\* Mutant: the tool manager is not tested.
HandlesTools_Unchecked(response, manager) == response.stop_reason = "tool_use"

\* Line 102: whether the response goes to _handle_tool_execution.
HandlesTools(response, manager) == response.stop_reason = "tool_use" /\ manager

\* Lines 99-110: the first response; lines 125-127 when it asks for tools.
FirstResponse(response) ==
    /\ pc = "first_call"
    /\ responses' = Append(responses, response)
    /\ IF HandlesTools(response, tool_manager)
       THEN /\ messages' = api_params.messages
            /\ current_response' = response
            /\ round_count' = 0
            /\ pc' = "loop"
            /\ UNCHANGED result
       ELSE /\ Return(ResponseText(response))
            /\ UNCHANGED <<messages, current_response, round_count>>
    /\ UNCHANGED <<args, api_params, tool_results, block, calls, dispatches, objects>>
    /\ UNCHANGED clients

(***************************************************************************)
(* _handle_tool_execution (ai_generator.py 112-172) and _execute_tools     *)
(* (174-200)                                                               *)
(***************************************************************************)
\* Lines 129-133 and 185: the loop test; a round starts with the assistant's
\* turn.  Lines 167-172 when the test fails.
LoopTest ==
    /\ pc = "loop"
    /\ IF LoopCondition(round_count, current_response)
       THEN /\ round_count' = round_count + 1
            /\ messages' = Append(messages, [role |-> "assistant",
                                             content |-> current_response.content])
            /\ tool_results' = <<>>
            /\ block' = 1
            /\ pc' = "execute"
            /\ UNCHANGED result
       ELSE /\ Return(ResponseText(current_response))
            /\ UNCHANGED <<messages, round_count, tool_results, block>>
    /\ UNCHANGED <<args, api_params, current_response, calls, responses, dispatches,
                   objects>>
    /\ UNCHANGED clients

\* Mutant: the loop over the blocks stops after the first block.
Exhausted_AfterFirst(next_block, response) == next_block > 1

\* Line 187: the for loop has passed the last content block of the response.
Exhausted(next_block, response) == next_block > Len(response.content)

\* Lines 187-188: a content block that is no tool_use block is passed over.
SkipBlock ==
    /\ pc = "execute"
    /\ block <= Len(current_response.content)
    /\ current_response.content[block].type # "tool_use"
    /\ block' = block + 1
    /\ UNCHANGED <<pc, args, api_params, messages, current_response, round_count,
                   tool_results, calls, responses, dispatches, result, objects>>
    /\ UNCHANGED clients

\* Mutant: the result is labelled with the name of the tool, not with the
\* id of the request.
ToolResult_NameAsId(content_block, value) ==
    [type |-> "tool_result", tool_use_id |-> content_block.name, content |-> value]

\* Lines 193-197: the record of one result.
ToolResult(content_block, value) ==
    [type |-> "tool_result", tool_use_id |-> content_block.id, content |-> value]

\* Lines 188-197 and 199-200: one tool_use block is dispatched.  When the
\* dispatch raises, _execute_tools returns None: the results so far are lost.
\* Mutant: the results collected before the exception are kept.
ExceptResults_Kept(results) == results

\* Lines 199-200: except Exception: return None, whatever was collected.
ExceptResults(results) == <<>>

Dispatch(store) ==
    /\ pc = "execute"
    /\ block <= Len(current_response.content)
    /\ current_response.content[block].type = "tool_use"
    /\ LET content_block == current_response.content[block]
           r == execute_tool(manager_tools, content_block.name, content_block.input,
                             store, last_sources)
       IN /\ dispatches' = Append(dispatches,
                                  [round |-> round_count, id |-> content_block.id,
                                   name |-> content_block.name, out |-> r.out,
                                   ran |-> r.ran, calls_made |-> Len(calls),
                                   produced |-> Produced(manager_tools, content_block,
                                                         store),
                                   sources_before |-> last_sources,
                                   sources_after |-> r.last_sources])
          /\ last_sources' = r.last_sources
          /\ IF r.out.raised
             THEN /\ tool_results' = ExceptResults(tool_results)
                  /\ pc' = "check"
                  /\ UNCHANGED block
             ELSE /\ tool_results' = Append(tool_results,
                                            ToolResult(content_block, r.out.value))
                  /\ block' = block + 1
                  /\ UNCHANGED pc
    /\ UNCHANGED <<args, api_params, messages, current_response, round_count, calls,
                   responses, result, base_params, manager_tools>>
    /\ UNCHANGED clients

\* Line 198: the blocks are exhausted; _execute_tools returns its list, or
\* None (here the empty list: both are falsy) when it holds no result.
EndOfBatch ==
    /\ pc = "execute"
    /\ Exhausted(block, current_response)
    /\ pc' = "check"
    /\ UNCHANGED <<args, locals, calls, responses, dispatches, result, objects>>
    /\ UNCHANGED clients

\* Mutant: the test of line 137 is lost, a failed batch goes on.
NoResults_Never(results) == FALSE

\* Mutant: a result that reports an error counts as a failed batch.
NoResults_OnErrorText(results) ==
    \/ results = <<>>
    \/ \E i \in 1..Len(results) :
         results[i].content \in {"Tool 'bogus_tool' not found", "Search error: boom"}

\* Line 137: whether _execute_tools gave no result.
NoResults(results) == results = <<>>

\* Mutant: every result becomes a user turn of its own.
WithResults_OneTurnEach(turns, results) ==
    turns \o [i \in 1..Len(results) |-> [role |-> "user", content |-> <<results[i]>>]]

\* Mutant: the results overwrite the last turn instead of following it.
WithResults_InPlace(turns, results) ==
    [turns EXCEPT ![Len(turns)] = [role |-> "user", content |-> results]]

\* Line 140: the results of the round become one user turn.
WithResults(turns, results) == Append(turns, [role |-> "user", content |-> results])

\* Lines 137-161: without a result the loop breaks to line 167; otherwise
\* the results are appended and the next call is sent, without tools after
\* the last round.
CheckResults ==
    /\ pc = "check"
    /\ IF NoResults(tool_results)
       THEN /\ Return(ResponseText(current_response))
            /\ UNCHANGED <<messages, calls>>
       ELSE /\ messages' = WithResults(messages, tool_results)
            /\ IF IsLastRound(round_count)
               THEN /\ calls' = Append(calls, FinalParams(messages'))
                    /\ pc' = "final_call"
               ELSE /\ calls' = Append(calls, NextParams(messages'))
                    /\ pc' = "next_call"
            /\ UNCHANGED result
    /\ base_params' = IF calls' = calls THEN base_params
                      ELSE Spread(base_params, calls'[Len(calls')])
    /\ UNCHANGED <<args, api_params, current_response, round_count, tool_results,
                   block, responses, dispatches, manager_tools, last_sources>>
    /\ UNCHANGED clients

\* Lines 161-165: the response to a call made with tools.
NextResponse(response) ==
    /\ pc = "next_call"
    /\ responses' = Append(responses, response)
    /\ current_response' = response
    /\ IF response.stop_reason # "tool_use"
       THEN Return(ResponseText(response))
       ELSE /\ pc' = "loop"
            /\ UNCHANGED result
    /\ UNCHANGED <<args, api_params, messages, round_count, tool_results, block,
                   calls, dispatches, objects>>
    /\ UNCHANGED clients

\* Lines 149-150: the response to the final call; its text is read unguarded.
FinalText(response) == Content0Text(response)

FinalResponse(response) ==
    /\ pc = "final_call"
    /\ responses' = Append(responses, response)
    /\ IF FinalText(response).raised
       THEN Propagate(FinalText(response).exc)
       ELSE Return(FinalText(response).value)
    /\ UNCHANGED <<args, locals, calls, dispatches, objects>>
    /\ UNCHANGED clients

\* The caller (RAGSystem.query) has its answer or the exception.  After an
\* answer it reads get_last_sources() and calls reset_sources(); an exception
\* leaves query() at once, before both.  Nothing of the run is kept on the
\* generator, which is ready for the next query.
Finish ==
    /\ pc \in {"done", "raised"}
    /\ pc' = "idle"
    /\ query' = None /\ conversation_history' = None /\ tools' = None
    /\ tool_manager' = FALSE /\ max_rounds' = 0
    /\ api_params' = None /\ messages' = <<>> /\ current_response' = None
    /\ round_count' = 0 /\ tool_results' = <<>> /\ block' = 0
    /\ calls' = <<>> /\ responses' = <<>> /\ dispatches' = <<>> /\ result' = None
    /\ last_sources' = IF pc = "done"
                       THEN reset_sources(manager_tools, last_sources)
                       ELSE last_sources
    /\ UNCHANGED <<base_params, manager_tools>>
    /\ UNCHANGED clients

RunStep ==
    \/ \E response \in GatewayResponses : FirstResponse(response)
    \/ LoopTest
    \/ SkipBlock
    \/ \E store \in StoreBehaviours : Dispatch(store)
    \/ EndOfBatch
    \/ CheckResults
    \/ \E response \in GatewayResponses : NextResponse(response)
    \/ \E response \in GatewayResponses : FinalResponse(response)

StartSome ==
    \E q \in Queries, history \in Histories, t \in ToolsArguments,
       tm \in BOOLEAN, rounds \in -1..MaxRounds :
        Start(q, history, t, tm, rounds)

Next ==
    \/ StartSome
    \/ RunStep
    \/ Finish

Spec == Init /\ [][Next]_vars

(***************************************************************************)
(* A client of CourseSearchTool alone: it calls execute with the arguments *)
(* and against the store outcomes below, on a tool that keeps its          *)
(* last_sources between calls.  ops is the log of the calls.               *)
(***************************************************************************)
\* Number of executions a client of one tool makes.
MaxSearches == 2

Doc3 == "chunk three"
MetaLesson0 == [course_title |-> "Test Course", lesson_number |-> 0]
MetaLesson2 == [course_title |-> "Other Course", lesson_number |-> 2]

\* The keyword arguments of execute: the filters absent, present, and
\* present with a falsy value.
SearchArguments ==
    { [query |-> "mcp basics"],
      [query |-> "mcp basics", course_name |-> "MCP"],
      [query |-> "mcp basics", lesson_number |-> 5],
      [query |-> "mcp basics", course_name |-> "MCP", lesson_number |-> 5],
      [query |-> "mcp basics", course_name |-> ""],
      [query |-> "mcp basics", lesson_number |-> 0],
      [query |-> "mcp basics", course_name |-> "MCP", lesson_number |-> 0] }

TwoDocuments == SearchResults(<<Doc1, Doc2>>, <<MetaLesson1, MetaNoLesson>>, None)
\* two chunks of one lesson
SameLesson == SearchResults(<<Doc1, Doc2>>, <<MetaLesson1, MetaLesson1>>, None)
ThreeDocuments ==
    SearchResults(<<Doc3, Doc1, Doc2>>, <<MetaLesson2, MetaLesson0, MetaLesson1>>, None)
NoDocuments == SearchResults(<<>>, <<>>, None)
ErrorResults == SearchResults(<<>>, <<>>, Some("Search error: boom"))
\* an error reported along with documents
ErrorWithDocuments == SearchResults(<<Doc1>>, <<MetaLesson1>>, Some("Search error: boom"))

SearchStore(search, link) == [search |-> search, link |-> link, courses |-> Ok(<<>>)]

SearchStores ==
    { SearchStore(Ok(TwoDocuments), Ok(Linked)),
      SearchStore(Ok(TwoDocuments), Ok(SomeLinks)),
      SearchStore(Ok(TwoDocuments), Raise("boom")),
      SearchStore(Ok(SameLesson), Ok(Linked)),
      SearchStore(Ok(SameLesson), Ok(NoLinks)),
      SearchStore(Ok(ThreeDocuments), Ok(SomeLinks)),
      SearchStore(Ok(NoDocuments), Ok(NoLinks)),
      SearchStore(Ok(ErrorResults), Ok(NoLinks)),
      SearchStore(Ok(ErrorWithDocuments), Ok(Linked)),
      SearchStore(Raise("boom"), Ok(NoLinks)) }

\* Lines 53-123: one call of CourseSearchTool.execute(**kwargs).
SearchExecute(kwargs, store) ==
    /\ Len(ops) < MaxSearches
    /\ LET r == CourseSearchTool_execute(kwargs, store, last_sources)
       IN /\ last_sources' = r.last_sources
          /\ ops' = Append(ops, [op |-> "CourseSearchTool.execute", input |-> kwargs,
                                 store |-> store, out |-> r.out,
                                 link_calls |-> r.link_calls,
                                 sources_before |-> last_sources,
                                 sources_after |-> r.last_sources])
    /\ UNCHANGED <<pc, args, locals, calls, responses, dispatches, result,
                   base_params, manager_tools, runs>>

SearchNext == \E kwargs \in SearchArguments, store \in SearchStores : SearchExecute(kwargs, store)

SearchSpec == Init /\ [][SearchNext]_vars

(***************************************************************************)
(* A client of CourseOutlineTool alone: it calls execute(course_title)     *)
(* against the outcomes of get_all_courses_metadata below.                 *)
(***************************************************************************)
\* Number of executions a client of the outline tool makes.
MaxOutlines == 2

ShortTitle == <<"M", "C", "P">>
ChromaTitle == <<"C", "h", "r", "o", "m", "a">>
NullTitle == <<"N", "u", "l", "l">>

\* a course stored without instructor, link and lessons
ShortCourse == [title |-> ShortTitle]

\* a course whose lessons are stored out of order, some without a number,
\* without a title, with an empty title or with neither
ChromaCourse ==
    [title |-> ChromaTitle,
     instructor |-> "",
     course_link |-> <<"h","t","t","p",":","/","/","c","h","r">>,
     lessons |-> << [lesson_number |-> Some(3), lesson_title |-> "Third"],
                    [lesson_title |-> "Unnumbered"],
                    [lesson_number |-> Some(1), lesson_title |-> "First"],
                    [lesson_link |-> "https://example.com/x"],
                    [lesson_number |-> Some(0), lesson_title |-> "Intro"],
                    [lesson_number |-> Some(4)],
                    [lesson_number |-> Some(2), lesson_title |-> ""] >>]

\* a course with an empty list of lessons
EmptyCourse == [title |-> ChromaTitle, instructor |-> "Ann", lessons |-> <<>>]

\* a course record without a title
UntitledCourse == [instructor |-> "Bob"]

\* a course whose lessons each lack the number, the title, or have it empty
HollowCourse ==
    [title |-> ChromaTitle,
     lessons |-> << [lesson_title |-> "Only title"],
                    [lesson_number |-> Some(1)],
                    [lesson_number |-> Some(2), lesson_title |-> ""] >>]

\* a course with a lesson whose stored number is null
NullNumberCourse ==
    [title |-> NullTitle,
     lessons |-> << [lesson_number |-> None, lesson_title |-> "Lost"],
                    [lesson_number |-> Some(1), lesson_title |-> "First"] >>]

\* The titles a client asks for: a part of a title, a title in another
\* case, a text that holds a title, a title of no course, the empty string.
OutlineTitles ==
    { <<"m", "c", "p">>,
      <<"M", "C", "P", ":", " ", "A", "P", "P", "S">>,
      <<"m", "y", " ", "m", "c", "p">>,
      <<"c", "h", "r", "o", "m", "a">>,
      <<"n", "u", "l", "l">>,
      <<"z", "z">>,
      <<>> }

OutlineStore(courses) ==
    [search |-> Ok(NoDocuments), link |-> Ok(NoLinks), courses |-> courses]

OutlineStores ==
    { OutlineStore(Ok(<<>>)),
      OutlineStore(Ok(<<MCPCourse>>)),
      OutlineStore(Ok(<<MCPCourse, ShortCourse>>)),
      OutlineStore(Ok(<<ShortCourse, MCPCourse>>)),
      OutlineStore(Ok(<<ChromaCourse, MCPCourse>>)),
      OutlineStore(Ok(<<EmptyCourse>>)),
      OutlineStore(Ok(<<HollowCourse>>)),
      OutlineStore(Ok(<<UntitledCourse, ShortCourse>>)),
      OutlineStore(Ok(<<ShortCourse, UntitledCourse>>)),
      OutlineStore(Ok(<<NullNumberCourse, ShortCourse>>)),
      OutlineStore(Raise("Database error")) }

\* Lines 149-176: one call of CourseOutlineTool.execute(course_title).
OutlineExecute(course_title, store) ==
    /\ Len(ops) < MaxOutlines
    /\ LET r == CourseOutlineTool_execute([course_title |-> course_title], store,
                                          last_sources)
       IN /\ last_sources' = r.last_sources
          /\ ops' = Append(ops, [op |-> "CourseOutlineTool.execute",
                                 course_title |-> course_title,
                                 store |-> store, out |-> r.out,
                                 sources_before |-> last_sources,
                                 sources_after |-> r.last_sources])
    /\ UNCHANGED <<pc, args, locals, calls, responses, dispatches, result,
                   base_params, manager_tools, runs>>

OutlineNext ==
    \E course_title \in OutlineTitles, store \in OutlineStores :
        OutlineExecute(course_title, store)

OutlineSpec == Init /\ [][OutlineNext]_vars

(***************************************************************************)
(* A client of the ToolManager alone (search_tools.py 229-266): it calls   *)
(* the manager's operations directly, in any order, on a manager that      *)
(* starts empty.  ops is the log of its calls.                             *)
(***************************************************************************)
MaxOps == 3

\* The tool invocations the client makes.
ManagerCalls == {SearchCall, OutlineCall, BogusCall}

\* Lines 235-241
ManagerRegister(tool) ==
    /\ Len(ops) < MaxOps
    /\ LET r == register_tool(manager_tools, tool)
       IN /\ manager_tools' = r.tools
          /\ ops' = Append(ops, [op |-> "register_tool", tool |-> tool, out |-> r.out,
                                 tools_before |-> manager_tools, tools_after |-> r.tools,
                                 sources_before |-> last_sources,
                                 sources_after |-> last_sources])
    /\ UNCHANGED <<pc, args, locals, calls, responses, dispatches, result,
                   base_params, last_sources, runs>>

\* Lines 247-252
ManagerExecute(call, store) ==
    /\ Len(ops) < MaxOps
    /\ LET r == execute_tool(manager_tools, call.name, call.input, store, last_sources)
       IN /\ last_sources' = r.last_sources
          /\ ops' = Append(ops, [op |-> "execute_tool", name |-> call.name,
                                 input |-> call.input, store |-> store,
                                 out |-> r.out, ran |-> r.ran,
                                 tools_before |-> manager_tools,
                                 tools_after |-> manager_tools,
                                 sources_before |-> last_sources,
                                 sources_after |-> r.last_sources])
    /\ UNCHANGED <<pc, args, locals, calls, responses, dispatches, result,
                   base_params, manager_tools, runs>>

\* Lines 243-245
ManagerGetToolDefinitions ==
    /\ Len(ops) < MaxOps
    /\ ops' = Append(ops, [op |-> "get_tool_definitions",
                           out |-> Ok(get_tool_definitions(manager_tools)),
                           tools_before |-> manager_tools, tools_after |-> manager_tools,
                           sources_before |-> last_sources,
                           sources_after |-> last_sources])
    /\ UNCHANGED <<pc, args, locals, calls, responses, dispatches, result, objects, runs>>

\* Lines 254-260
ManagerGetLastSources ==
    /\ Len(ops) < MaxOps
    /\ ops' = Append(ops, [op |-> "get_last_sources",
                           out |-> Ok(get_last_sources(manager_tools, last_sources)),
                           tools_before |-> manager_tools, tools_after |-> manager_tools,
                           sources_before |-> last_sources,
                           sources_after |-> last_sources])
    /\ UNCHANGED <<pc, args, locals, calls, responses, dispatches, result, objects, runs>>

\* Lines 262-266
ManagerResetSources ==
    /\ Len(ops) < MaxOps
    /\ last_sources' = reset_sources(manager_tools, last_sources)
    /\ ops' = Append(ops, [op |-> "reset_sources", out |-> Ok("None"),
                           tools_before |-> manager_tools, tools_after |-> manager_tools,
                           sources_before |-> last_sources,
                           sources_after |-> last_sources'])
    /\ UNCHANGED <<pc, args, locals, calls, responses, dispatches, result,
                   base_params, manager_tools, runs>>

ManagerNext ==
    \/ \E tool \in ToolClasses : ManagerRegister(tool)
    \/ \E call \in ManagerCalls, store \in StoreBehaviours : ManagerExecute(call, store)
    \/ ManagerGetToolDefinitions
    \/ ManagerGetLastSources
    \/ ManagerResetSources

ManagerSpec == ManagerInit /\ [][ManagerNext]_vars

(***************************************************************************)
(* Several queries at once on the one ToolManager of the application.  Of  *)
(* a query only its calls on the manager matter here: its search           *)
(* executions while generate_response runs, then get_last_sources() and    *)
(* reset_sources() once generate_response has returned.  A step is one     *)
(* call; runs[c] keeps what query c wrote and read.                        *)
(***************************************************************************)
MaxExecutions == 2

RunStart(c) ==
    /\ runs[c].pc = "idle"
    /\ runs' = [runs EXCEPT ![c].pc = "running"]
    /\ UNCHANGED <<pc, args, locals, calls, responses, dispatches, result, objects, ops>>

\* A dispatch of the search tool by query c (search_tools.py 247-252, 53-123).
RunSearch(c, store) ==
    /\ runs[c].pc = "running"
    /\ runs[c].executions < MaxExecutions
    /\ LET r == execute_tool(manager_tools, SearchCall.name, SearchCall.input, store,
                             last_sources)
           produced == Produced(manager_tools, SearchCall, store)
       IN /\ last_sources' = r.last_sources
          /\ runs' = [runs EXCEPT
                        ![c].executions = @ + 1,
                        ![c].written = @ \cup {produced[k] : k \in 1..Len(produced)}]
    /\ UNCHANGED <<pc, args, locals, calls, responses, dispatches, result,
                   base_params, manager_tools, ops>>

\* generate_response has returned to query c.
RunReturns(c) ==
    /\ runs[c].pc = "running"
    /\ runs' = [runs EXCEPT ![c].pc = "answered"]
    /\ UNCHANGED <<pc, args, locals, calls, responses, dispatches, result, objects, ops>>

\* sources = self.tool_manager.get_last_sources()
RunGetLastSources(c) ==
    /\ runs[c].pc = "answered"
    /\ runs' = [runs EXCEPT ![c].pc = "read",
                            ![c].read = Some(get_last_sources(manager_tools, last_sources))]
    /\ UNCHANGED <<pc, args, locals, calls, responses, dispatches, result, objects, ops>>

\* self.tool_manager.reset_sources()
RunResetSources(c) ==
    /\ runs[c].pc = "read"
    /\ last_sources' = reset_sources(manager_tools, last_sources)
    /\ runs' = [runs EXCEPT ![c].pc = "finished"]
    /\ UNCHANGED <<pc, args, locals, calls, responses, dispatches, result,
                   base_params, manager_tools, ops>>

ConcurrentNext ==
    \E c \in Runs :
        \/ RunStart(c)
        \/ \E store \in StoreBehaviours : RunSearch(c, store)
        \/ RunReturns(c)
        \/ RunGetLastSources(c)
        \/ RunResetSources(c)

ConcurrentSpec == Init /\ [][ConcurrentNext]_vars

\* One run at a time, to its end: every step of the run that can be taken
\* is taken (the code runs on; the gateway and the tools answer).
LiveNext ==
    \/ StartSome
    \/ RunStep

LiveSpec == Init /\ [][LiveNext]_vars /\ WF_vars(RunStep)

(***************************************************************************)
(* Runs of up to DeepRounds rounds, so that a run sends more than one      *)
(* call with a round context.  The gateway answers with a text or with a   *)
(* text block and a search request; the store finds two documents.         *)
(***************************************************************************)
DeepRounds == 3

DeepResponses ==
    { Response("end_turn", <<TextBlock("answer a")>>),
      Response("tool_use", <<TextBlock("looking a"), ToolUseBlock("toolu_1", SearchCall)>>) }

DeepStore ==
    [search |-> Ok(SearchResults(<<Doc1, Doc2>>, <<MetaLesson1, MetaNoLesson>>, None)),
     link |-> Ok(Linked), courses |-> Ok(<<MCPCourse>>)]

DeepStart ==
    \E q \in Queries, history \in Histories, t \in ToolsArguments,
       tm \in BOOLEAN, rounds \in 0..DeepRounds :
        Start(q, history, t, tm, rounds)

DeepStep ==
    \/ \E response \in DeepResponses : FirstResponse(response)
    \/ LoopTest
    \/ SkipBlock
    \/ Dispatch(DeepStore)
    \/ EndOfBatch
    \/ CheckResults
    \/ \E response \in DeepResponses : NextResponse(response)
    \/ \E response \in DeepResponses : FinalResponse(response)

DeepNext ==
    \/ DeepStart
    \/ DeepStep
    \/ Finish

RoundsSpec == Init /\ [][DeepNext]_vars

(***************************************************************************)
(* What the run's logs say.                                                *)
(***************************************************************************)
RunEnded == pc \in {"done", "raised"}

LastResponse == responses[Len(responses)]

\* Whether the first block of a response is a text block, and its text.
HasText(response) == response.content # <<>> /\ response.content[1].type = "text"
TextOf(response) == response.content[1].text

\* The tool_use blocks of the assistant turn of round r.
Requests(r) == SelectSeq(messages[2 * r].content, LAMBDA b : b.type = "tool_use")

\* The dispatches of round r, in order.
DispatchesOf(r) == SelectSeq(dispatches, LAMBDA d : d.round = r)

RaisedIn(r) == \E i \in 1..Len(dispatches) :
                  dispatches[i].round = r /\ dispatches[i].out.raised

\* Round r is over: the loop has left its batch and the test of its result.
RoundOver(r) == r < round_count \/ (r = round_count /\ pc \notin {"execute", "check"})

\* The tool-result turn of round r follows its assistant turn.
HasResultTurn(r) == Len(messages) >= 2 * r + 1 /\ messages[2 * r + 1].role = "user"

\* The number of tool-result turns: the rounds whose batch was executed.
CompletedRounds == Cardinality({i \in 2..Len(messages) : messages[i].role = "user"})

(***************************************************************************)
(* The claims.                                                             *)
(***************************************************************************)
\* The conclusion of C1: max_rounds + 1 calls, the last one without a tools
\* parameter, and the text of the last response (when its first block is a
\* text block) returned.
LastCallIsToolless ==
    /\ Len(calls) = max_rounds + 1
    /\ "tools" \notin DOMAIN calls[Len(calls)]
    /\ Len(responses) = Len(calls)
    /\ HasText(LastResponse) => (pc = "done" /\ result = Ok(TextOf(LastResponse)))

\* C1, as stated: in every ended run in which max_rounds rounds of tool use
\* were executed, the last gateway call carries no tool schema, the run made
\* exactly max_rounds + 1 gateway calls, and it returns the text of the last
\* call.  (A run with max_rounds = 0 executes its 0 rounds at once.)
C1_MaxRoundsRun_AsStated ==
    (RunEnded /\ CompletedRounds = max_rounds) => LastCallIsToolless

\* C1, amended: the same for every ended run with max_rounds >= 1 in which
\* max_rounds rounds of tool use were executed.
C1_MaxRoundsRun ==
    (RunEnded /\ max_rounds >= 1 /\ CompletedRounds = max_rounds) => LastCallIsToolless

\* C1 witness: a run of two executed rounds has returned the text of its
\* third call, the first two calls having had the tools attached.
C1_Witness ==
    /\ pc = "done" /\ max_rounds = 2 /\ CompletedRounds = 2
    /\ Len(calls) = 3 /\ "tools" \in DOMAIN calls[1] /\ "tools" \in DOMAIN calls[2]
    /\ responses[1].stop_reason = "tool_use" /\ responses[2].stop_reason = "tool_use"
    /\ result = Ok("answer b")

\* C2 as stated: in every reachable state the round counter is at most
\* max_rounds, at most max_rounds + 1 gateway calls have been made, and every
\* dispatch was made before the call number max_rounds + 1, at a time when
\* the latest call was the first call or one that carried the tools
\* parameter: none follows the tool-less final call.
C2_LoopIsBounded_AsStated ==
    /\ round_count <= max_rounds
    /\ Len(calls) <= max_rounds + 1
    /\ \A i \in 1..Len(dispatches) :
         /\ dispatches[i].round <= max_rounds
         /\ dispatches[i].calls_made <= max_rounds
         /\ \/ dispatches[i].calls_made = 1
            \/ "tools" \in DOMAIN calls[dispatches[i].calls_made]

\* The number of rounds a run can execute: max_rounds, or none when
\* max_rounds is negative.
RoundBound == IF max_rounds > 0 THEN max_rounds ELSE 0

\* C2 amended: in every reachable state the round counter is at most
\* max_rounds, or 0 when max_rounds is negative, the gateway calls made are at
\* most that bound plus one, and every dispatch was made before the call
\* number bound + 1, at a time when the latest call was the first call or one
\* that carried the tools parameter: none follows the tool-less final call.
C2_LoopIsBounded ==
    /\ round_count <= RoundBound
    /\ Len(calls) <= RoundBound + 1
    /\ \A i \in 1..Len(dispatches) :
         /\ dispatches[i].round <= RoundBound
         /\ dispatches[i].calls_made <= RoundBound
         /\ \/ dispatches[i].calls_made = 1
            \/ "tools" \in DOMAIN calls[dispatches[i].calls_made]

\* C2 witness: the response to the tool-less final call asks for tools
\* again, and the run has ended without a dispatch for it.
C2_Witness ==
    /\ RunEnded /\ max_rounds >= 1 /\ Len(calls) = max_rounds + 1
    /\ Len(responses) = Len(calls)
    /\ "tools" \notin DOMAIN calls[Len(calls)]
    /\ LastResponse.stop_reason = "tool_use"
    /\ Len(Requests(max_rounds)) >= 1
    /\ \A i \in 1..Len(dispatches) : dispatches[i].calls_made < Len(calls)

\* C3, as stated: every run that was started eventually reaches its final
\* state by returning.
C3_EveryRunReturns == (pc = "first_call") ~> (pc = "done")

\* What does hold for C3's runs: every run that was started ends, by
\* returning or by raising.
EveryRunEnds == (pc = "first_call") ~> RunEnded

\* C4: once the first response does not ask for tool use, the run has
\* returned, having made one gateway call and no dispatch; what it returned
\* is the text of that response when its first block is a text block.
C4_NoToolUseRequested ==
    (responses # <<>> /\ responses[1].stop_reason # "tool_use") =>
        /\ pc = "done"
        /\ Len(calls) = 1 /\ Len(responses) = 1
        /\ dispatches = <<>>
        /\ HasText(responses[1]) => result = Ok(TextOf(responses[1]))

\* C4 witness: a run with the tools offered has returned the text of a
\* first response that was plain text.
C4_Witness ==
    /\ pc = "done" /\ tools.some /\ tool_manager
    /\ responses = <<Response("end_turn", <<TextBlock("answer a")>>)>>
    /\ result = Ok("answer a")

\* What C5 asks of round r with its n requests: n dispatches, and one
\* tool-result turn of n results right after the assistant turn, followed by
\* nothing or by the assistant turn of the next round.
RoundCombined(r) ==
    /\ Len(DispatchesOf(r)) = Len(Requests(r))
    /\ HasResultTurn(r)
    /\ Len(messages[2 * r + 1].content) = Len(Requests(r))
    /\ \/ Len(messages) = 2 * r + 1
       \/ messages[2 * r + 2].role = "assistant"

\* C5, as stated: for every round the loop entered and left, with n the
\* number of tool_use requests of its response, exactly n dispatches were
\* made in the round and exactly one combined tool-result turn of n results
\* was appended.
C5_RoundDispatchesAll_AsStated ==
    \A r \in 1..round_count : RoundOver(r) => RoundCombined(r)

\* C5, amended: the same for every round with at least one request whose
\* batch was executed without an exception.
C5_RoundDispatchesAll ==
    \A r \in 1..round_count :
        (RoundOver(r) /\ Len(Requests(r)) >= 1 /\ ~RaisedIn(r)) => RoundCombined(r)

\* C5 witness: a round of two requests is over, with two dispatches and one
\* turn of two results, and the next round has begun after it.
C5_Witness ==
    /\ round_count = 2 /\ Len(messages) >= 4
    /\ Len(Requests(1)) = 2 /\ Len(DispatchesOf(1)) = 2
    /\ messages[3].role = "user" /\ Len(messages[3].content) = 2
    /\ messages[4].role = "assistant"

\* C6: once a dispatch has raised, it is the last dispatch of the run, no
\* gateway call has been made since, the conversation ends with the
\* assistant turn of that round (no tool-result turn), the run is returning
\* or has returned and never raises, and what it returns is the text of the
\* first block of the last response, or the sentinel when that block is no
\* text block.
C6_BatchThrows ==
    \A i \in 1..Len(dispatches) :
        dispatches[i].out.raised =>
            /\ i = Len(dispatches)
            /\ pc \in {"check", "done"}
            /\ round_count = dispatches[i].round
            /\ Len(calls) = dispatches[i].calls_made
            /\ Len(responses) = Len(calls)
            /\ Len(messages) = 2 * round_count
            /\ messages[Len(messages)].role = "assistant"
            /\ pc = "done" =>
                 result = Ok(IF HasText(LastResponse)
                             THEN TextOf(LastResponse) ELSE Sentinel)

\* C6 witness: the second dispatch of the second round raised after the
\* first had succeeded, and the run has returned the text of the second
\* response without a third call.
C6_Witness ==
    /\ pc = "done" /\ round_count = 2 /\ Len(calls) = 2
    /\ Len(DispatchesOf(2)) = 2
    /\ dispatches[Len(dispatches)].out.raised
    /\ ~HasResultTurn(2)
    /\ result = Ok("looking b")

\* C7, as stated: a run whose last response (the one the answer is read
\* from) has no text block first ends by returning the sentinel string,
\* never by an exception.
C7_MalformedGivesSentinel ==
    (RunEnded /\ ~HasText(LastResponse)) => (pc = "done" /\ result = Ok(Sentinel))

\* C8, as stated: no dispatch through execute_tool raises; each yields a
\* string.
C8_ToolsNeverRaise ==
    \A i \in 1..Len(dispatches) : ~dispatches[i].out.raised

\* C9: a step taken when the next block asks for a tool name that is not
\* registered makes one dispatch that returns exactly "Tool '<name>' not
\* found" without raising, runs no tool's execute, and leaves the registry
\* and the provenance list as they were.
C9_UnregisteredName ==
    [][ ( /\ pc = "execute"
          /\ block <= Len(current_response.content)
          /\ current_response.content[block].type = "tool_use"
          /\ current_response.content[block].name \notin Registered(manager_tools) )
        => /\ Len(dispatches') = Len(dispatches) + 1
           /\ dispatches'[Len(dispatches')].name = current_response.content[block].name
           /\ dispatches'[Len(dispatches')].out =
                Ok("Tool '" \o current_response.content[block].name \o "' not found")
           /\ ~dispatches'[Len(dispatches')].ran.some
           /\ manager_tools' = manager_tools
           /\ last_sources' = last_sources ]_vars

\* C9 witness: a dispatch of the unregistered bogus_tool was made while the
\* provenance list held the sources of an earlier search, and kept them.
C9_Witness ==
    \E i \in 1..Len(dispatches) :
        /\ dispatches[i].name = "bogus_tool"
        /\ dispatches[i].out = Ok("Tool 'bogus_tool' not found")
        /\ dispatches[i].sources_before # <<>>
        /\ dispatches[i].sources_after = dispatches[i].sources_before

\* The strings by which a tool reports that it found or could do nothing.
IsErrorText(text) ==
    text \in {"Tool 'bogus_tool' not found", "Search error: boom",
              "No relevant content found.",
              "Error retrieving course outline: Database error"}

\* C10: a dispatch that returned an error string, in a round that is over
\* and in which no dispatch raised, has its string in the round's
\* tool-result turn under its own id, and the gateway call after the round
\* was issued with that turn; and a round with a request that got no
\* tool-result turn is one in which a dispatch raised.
C10_ErrorTextIsAResult ==
    /\ \A i \in 1..Len(dispatches) :
         LET d == dispatches[i]
             r == d.round
         IN (~d.out.raised /\ IsErrorText(d.out.value) /\ RoundOver(r) /\ ~RaisedIn(r)) =>
                /\ HasResultTurn(r)
                /\ \E k \in 1..Len(messages[2 * r + 1].content) :
                     messages[2 * r + 1].content[k] =
                       [type |-> "tool_result", tool_use_id |-> d.id,
                        content |-> d.out.value]
                /\ Len(calls) >= r + 1
                /\ Len(calls[r + 1].messages) = 2 * r + 1
                /\ calls[r + 1].messages[2 * r + 1] = messages[2 * r + 1]
    /\ \A r \in 1..round_count :
         (RoundOver(r) /\ Len(Requests(r)) >= 1 /\ ~HasResultTurn(r)) => RaisedIn(r)

\* C10 witness: the search of round 1 returned the store's error string, the
\* string went to the gateway in the second call, and round 2 was entered.
C10_Witness ==
    /\ round_count = 2 /\ Len(calls) >= 2
    /\ dispatches # <<>>
    /\ dispatches[1].round = 1
    /\ dispatches[1].out = Ok("Search error: boom")
    /\ Len(calls[2].messages) = 3
    /\ calls[2].messages[3].content[1].content = "Search error: boom"

\* The number of documents a search execution matched: none when the store
\* reported an error.
Matched(store) ==
    IF TruthyStr(store.search.value.error) THEN 0
    ELSE Len(store.search.value.documents)

\* C11, as stated: after every CourseSearchTool.execute call that returned,
\* last_sources holds one entry per document that call matched and nothing
\* else: it is empty when the call matched no document or the store
\* reported an error.
C11_SourcesOfLastCall ==
    \A i \in 1..Len(ops) :
        ( /\ ops[i].op = "execute_tool"
          /\ ops[i].ran = Some("CourseSearchTool")
          /\ ~ops[i].out.raised )
        => /\ Len(ops[i].sources_after) = Matched(ops[i].store)
           /\ Matched(ops[i].store) = 0 => ops[i].sources_after = <<>>

\* The provenance entries the search executions of the current run produced.
OwnEntries ==
    UNION { {dispatches[i].produced[k] : k \in 1..Len(dispatches[i].produced)} :
              i \in 1..Len(dispatches) }

\* C12, as stated: with reset_sources called after each run that returned,
\* what get_last_sources gives at the end of a run holds only entries that
\* the search executions of that same run produced.
C12_ReadsOwnSources ==
    pc = "done" =>
        \A k \in 1..Len(get_last_sources(manager_tools, last_sources)) :
            get_last_sources(manager_tools, last_sources)[k] \in OwnEntries

\* C13, as stated: under every interleaving of two queries on the same
\* ToolManager, what a query has read from get_last_sources holds only
\* entries that its own search executions produced.
C13_RunsAreIndependent ==
    \A c \in Runs :
        runs[c].read.some =>
            \A k \in 1..Len(runs[c].read.v) : runs[c].read.v[k] \in runs[c].written

\* C14: in every tool-result turn there is one result per request of the
\* round, in the order of the requests; the k-th result carries the id of
\* the k-th request and the string that the dispatch of that request
\* returned.
C14_ResultsMatchRequests ==
    \A r \in 1..round_count :
        HasResultTurn(r) =>
            /\ Len(messages[2 * r + 1].content) = Len(Requests(r))
            /\ Len(DispatchesOf(r)) = Len(Requests(r))
            /\ \A k \in 1..Len(Requests(r)) :
                 /\ messages[2 * r + 1].content[k].type = "tool_result"
                 /\ messages[2 * r + 1].content[k].tool_use_id = Requests(r)[k].id
                 /\ DispatchesOf(r)[k].id = Requests(r)[k].id
                 /\ DispatchesOf(r)[k].name = Requests(r)[k].name
                 /\ messages[2 * r + 1].content[k].content = DispatchesOf(r)[k].out.value

\* C14 witness: a round asked for a search as toolu_1 and an outline as
\* toolu_2; its turn holds the search's text under toolu_1 and then the
\* outline's text under toolu_2, and the two texts differ.
C14_Witness ==
    /\ HasResultTurn(1)
    /\ Len(Requests(1)) = 2
    /\ Requests(1)[1].name = "search_course_content"
    /\ Requests(1)[2].name = "get_course_outline"
    /\ messages[3].content[1].tool_use_id = "toolu_1"
    /\ messages[3].content[2].tool_use_id = "toolu_2"
    /\ messages[3].content[1].content = "Search error: boom"
    /\ messages[3].content[2].content = "No courses found in the database."

\* C15: when the response received after r completed rounds, r < max_rounds,
\* is not a tool-use response, the run has returned the text of that
\* response (the sentinel if it has none), having made exactly r + 1 gateway
\* calls and entered exactly r rounds; every call after the first was a
\* round call with the tools parameter and tool_choice, none the tool-less
\* final call.
C15_EarlyTermination ==
    ( /\ responses # <<>>
      /\ Len(responses) = CompletedRounds + 1
      /\ CompletedRounds < max_rounds
      /\ LastResponse.stop_reason # "tool_use" )
    => /\ pc = "done"
       /\ result = Ok(IF HasText(LastResponse) THEN TextOf(LastResponse) ELSE Sentinel)
       /\ Len(calls) = CompletedRounds + 1
       /\ round_count = CompletedRounds
       /\ \A i \in 2..Len(calls) :
            "tools" \in DOMAIN calls[i] /\ "tool_choice" \in DOMAIN calls[i]

\* C15 witness: with max_rounds = 2 the response after round 1 was plain
\* text, and the run returned it after two calls.
C15_Witness ==
    /\ pc = "done" /\ max_rounds = 2 /\ CompletedRounds = 1 /\ round_count = 1
    /\ Len(calls) = 2 /\ Len(responses) = 2
    /\ responses[1].stop_reason = "tool_use"
    /\ responses[2].stop_reason = "end_turn"
    /\ result = Ok("answer a")

\* The tool-result records of round r, as the dispatch log gives them.
ResultsOf(r) ==
    [k \in 1..Len(DispatchesOf(r)) |->
        [type |-> "tool_result", tool_use_id |-> DispatchesOf(r)[k].id,
         content |-> DispatchesOf(r)[k].out.value]]

\* C16: the i-th gateway call of a run, issued after i - 1 completed rounds,
\* carries 1 + 2(i - 1) turns: the user's query, then for each round in
\* order the assistant turn with the content of that round's response and
\* the user turn with that round's results; and the turns of every earlier
\* call are a prefix of the turns of every later call.
C16_ConversationAppendOnly ==
    \A i \in 1..Len(calls) :
        /\ Len(calls[i].messages) = 1 + 2 * (i - 1)
        /\ calls[i].messages[1] = [role |-> "user", content |-> query]
        /\ \A r \in 1..(i - 1) :
             /\ calls[i].messages[2 * r] =
                  [role |-> "assistant", content |-> responses[r].content]
             /\ calls[i].messages[2 * r + 1] =
                  [role |-> "user", content |-> ResultsOf(r)]
        /\ \A j \in 1..(i - 1) :
             SubSeq(calls[i].messages, 1, Len(calls[j].messages)) = calls[j].messages

\* C16 witness: the third call of a run carries five turns, of which the
\* first three are the turns of the second call and the first is the turn
\* of the first call.
C16_Witness ==
    /\ Len(calls) = 3
    /\ Len(calls[1].messages) = 1 /\ Len(calls[2].messages) = 3
    /\ Len(calls[3].messages) = 5
    /\ SubSeq(calls[3].messages, 1, 3) = calls[2].messages
    /\ calls[3].messages[4].role = "assistant"
    /\ calls[3].messages[5].role = "user"
    /\ calls[3].messages[3] # calls[3].messages[5]

\* The system content C17 expects of a run: the fixed prompt, followed by
\* the history section exactly when a non-empty history was supplied.
ExpectedSystem ==
    IF conversation_history.some /\ conversation_history.v # ""
    THEN "SYSTEM_PROMPT" \o "\n\nPrevious conversation:\n" \o conversation_history.v
    ELSE "SYSTEM_PROMPT"

\* C17: the first gateway call carries one turn, the user's query, and the
\* expected system content; the first turn of every call is that query and
\* every other turn is a list of content blocks; the system prompt of every later call is
\* the same expected system content, alone or followed by the context of
\* the round.
C17_HistoryInSystemPrompt ==
    \A i \in 1..Len(calls) :
        /\ calls[1].messages = <<[role |-> "user", content |-> query]>>
        /\ calls[1].system = ExpectedSystem
        /\ calls[i].messages[1] = [role |-> "user", content |-> query]
        /\ \A k \in 2..Len(calls[i].messages) :
             \A b \in 1..Len(calls[i].messages[k].content) :
                 calls[i].messages[k].content[b].type \in {"text", "tool_use", "tool_result"}
        /\ \/ calls[i].system = ExpectedSystem
           \/ calls[i].system =
                build_round_system_prompt(ExpectedSystem, i - 1, max_rounds)

\* C17 witness: a run with a history has made three calls, each with the
\* history in its system prompt, the second one followed by round context.
C17_Witness ==
    /\ Len(calls) = 3
    /\ conversation_history = Some("User: hi\nAssistant: hello")
    /\ calls[1].system = "SYSTEM_PROMPT\n\nPrevious conversation:\nUser: hi\nAssistant: hello"
    /\ calls[3].system = calls[1].system
    /\ calls[2].system # calls[1].system
    /\ calls[1].messages = <<[role |-> "user", content |-> "What is MCP?"]>>

\* Line 215: the round context appended to the system prompt before the last
\* round, with the two numbers it names.
RoundContext(current, count) ==
    "\n\nRound " \o ToString(current) \o " of " \o ToString(count)
      \o ": You can make additional tool calls if needed for complex queries requiring multiple searches or comparisons."

\* C18 as stated: the call that follows round r < max_rounds carries the tool
\* list of the first call, the automatic tool choice, and the base system
\* content followed by a round context that names the current round and the
\* number of rounds that remain.
C18_NextCallParameters_AsStated ==
    \A r \in 1..(Len(calls) - 1) :
        r < max_rounds =>
            /\ ("tools" \in DOMAIN calls[r + 1]) = ("tools" \in DOMAIN calls[1])
            /\ "tools" \in DOMAIN calls[1] => calls[r + 1].tools = calls[1].tools
            /\ calls[r + 1].tool_choice = [type |-> "auto"]
            /\ calls[r + 1].system = calls[1].system \o RoundContext(r, max_rounds - r)

\* C18 amended: the call that follows round r < max_rounds carries the tool
\* list of the first call (None under the tools key when the first call
\* carried no list), the automatic tool choice, and the base system content
\* followed by "Round r of max_rounds": the current round and the maximum
\* number of rounds, not the number that remain.
C18_NextCallParameters ==
    \A r \in 1..(Len(calls) - 1) :
        r < max_rounds =>
            /\ "tools" \in DOMAIN calls[r + 1]
            /\ calls[r + 1].tools = (IF "tools" \in DOMAIN calls[1] THEN calls[1].tools ELSE None)
            /\ calls[r + 1].tool_choice = [type |-> "auto"]
            /\ calls[r + 1].system = calls[1].system \o RoundContext(r, max_rounds)
            /\ calls[1].system = ExpectedSystem

\* C18 witness: a run with tools and max_rounds = 2 has sent the call after
\* round 1, with the tools of the first call and "Round 1 of 2".
C18_Witness ==
    /\ Len(calls) >= 2 /\ max_rounds = 2 /\ tools.some
    /\ conversation_history = None
    /\ calls[2].tools = calls[1].tools
    /\ calls[2].tools = Some(get_tool_definitions(manager_tools))
    /\ calls[2].tool_choice = [type |-> "auto"]
    /\ calls[2].system = "SYSTEM_PROMPT\n\nRound 1 of 2: You can make additional tool calls if needed for complex queries requiring multiple searches or comparisons."

\* The dispatches of round r that returned a result.
Completed(r) ==
    {i \in 1..Len(dispatches) : dispatches[i].round = r /\ ~dispatches[i].out.raised}

\* What the logs of a run say of the order of its calls and dispatches.
C19_Ordered ==
    /\ Len(calls) - Len(responses) \in {0, 1}
    /\ \A i \in 1..Len(dispatches) :
         LET d == dispatches[i]
         IN /\ d.round \in 1..Len(responses)
            /\ d.calls_made = d.round
            /\ \E b \in 1..Len(responses[d.round].content) :
                 /\ responses[d.round].content[b].type = "tool_use"
                 /\ responses[d.round].content[b].id = d.id
                 /\ responses[d.round].content[b].name = d.name
            /\ \A j \in 1..(i - 1) : dispatches[j].round <= d.round
    /\ \A r \in 1..(Len(calls) - 1) :
         Cardinality(Completed(r)) = Len(ToolUses(responses[r]))

\* One step of a run sends a call, receives a response or makes a dispatch,
\* and does so only when no other call is in flight.
C19_Step ==
    /\ Len(calls') > Len(calls) =>
         /\ Len(calls) = Len(responses)
         /\ Len(calls') = Len(calls) + 1
         /\ responses' = responses /\ dispatches' = dispatches
    /\ Len(responses') > Len(responses) =>
         /\ Len(calls) = Len(responses) + 1
         /\ Len(responses') = Len(responses) + 1
         /\ calls' = calls /\ dispatches' = dispatches
    /\ Len(dispatches') > Len(dispatches) =>
         /\ Len(calls) = Len(responses)
         /\ Len(dispatches') = Len(dispatches) + 1
         /\ calls' = calls /\ responses' = responses

\* C19: within one run at most one gateway call is in flight; a dispatch of
\* round r is made after response r, which holds its request, has arrived
\* and before call r + 1 is sent; and call r + 1 is sent only when every
\* request of round r has been dispatched and has returned.
C19_StrictOrder == [](C19_Ordered) /\ [][C19_Step]_vars

\* C19 witness: the call after round 1 is in flight, sent after both
\* dispatches of round 1 returned.
C19_Witness ==
    /\ Len(calls) = 2 /\ Len(responses) = 1
    /\ Len(ToolUses(responses[1])) = 2
    /\ Len(dispatches) = 2
    /\ \A i \in 1..2 : /\ dispatches[i].round = 1
                       /\ dispatches[i].calls_made = 1
                       /\ ~dispatches[i].out.raised

\* C20: register_tool raises when the definition of the tool has no name or
\* an empty one, and the registry is then what it was; when the definition
\* has a name the call returns, that name is registered with this tool, and
\* every other name keeps the tool it had.
C20_RegisterNeedsName ==
    \A i \in 1..Len(ops) :
        ops[i].op = "register_tool" =>
            LET o == ops[i]
                definition == get_tool_definition(o.tool)
            IN IF "name" \notin DOMAIN definition \/ definition.name = ""
               THEN /\ o.out = Raise("ValueError")
                    /\ o.tools_after = o.tools_before
               ELSE /\ ~o.out.raised
                    /\ Registered(o.tools_after)
                         = Registered(o.tools_before) \cup {definition.name}
                    /\ Lookup(o.tools_after, definition.name) = o.tool
                    /\ \A n \in Registered(o.tools_before) \ {definition.name} :
                         Lookup(o.tools_after, n) = Lookup(o.tools_before, n)

\* C20 witness: after the search tool was registered, a tool whose definition
\* has no name and one whose name is empty were refused, and the registry
\* still holds the search tool alone.
C20_Witness ==
    /\ Len(ops) = 3
    /\ ops[1].op = "register_tool" /\ ops[1].tool = "CourseSearchTool"
    /\ ~ops[1].out.raised
    /\ ops[2].op = "register_tool" /\ ops[2].tool = "NamelessTool"
    /\ ops[2].out.raised
    /\ ops[3].op = "register_tool" /\ ops[3].tool = "EmptyNameTool"
    /\ ops[3].out.raised
    /\ manager_tools = <<[name |-> "search_course_content", tool |-> "CourseSearchTool"]>>

\* The names under which the operations of a log registered a tool, each
\* once, in the order in which they were first registered.
RECURSIVE NamesRegistered(_)
NamesRegistered(log) ==
    IF log = <<>> THEN <<>>
    ELSE LET earlier == NamesRegistered(SubSeq(log, 1, Len(log) - 1))
             o == log[Len(log)]
         IN IF o.op = "register_tool" /\ ~o.out.raised
            THEN LET tool_name == get_tool_definition(o.tool).name
                 IN IF \E k \in 1..Len(earlier) : earlier[k] = tool_name
                    THEN earlier ELSE Append(earlier, tool_name)
            ELSE earlier

\* C21: get_tool_definitions returns one definition for each registered
\* name, in the order in which the names were registered, each being the
\* definition of the tool registered under it, and leaves the registry and
\* the provenance list as they were.
C21_DefinitionsInOrder ==
    \A i \in 1..Len(ops) :
        ops[i].op = "get_tool_definitions" =>
            LET names == NamesRegistered(SubSeq(ops, 1, i - 1))
                definitions == ops[i].out.value
            IN /\ ~ops[i].out.raised
               /\ Len(definitions) = Len(names)
               /\ Len(definitions) = Cardinality(Registered(ops[i].tools_before))
               /\ \A k \in 1..Len(names) :
                    /\ definitions[k].name = names[k]
                    /\ definitions[k]
                         = get_tool_definition(Lookup(ops[i].tools_before, names[k]))
               /\ ops[i].tools_after = ops[i].tools_before
               /\ ops[i].sources_after = ops[i].sources_before

\* C21 witness: the outline tool was registered, then the search tool, and
\* the definitions come in that order.
C21_Witness ==
    /\ Len(ops) = 3
    /\ ops[1].op = "register_tool" /\ ops[1].tool = "CourseOutlineTool"
    /\ ops[2].op = "register_tool" /\ ops[2].tool = "CourseSearchTool"
    /\ ops[3].op = "get_tool_definitions"
    /\ Len(ops[3].out.value) = 2
    /\ ops[3].out.value[1].name = "get_course_outline"
    /\ ops[3].out.value[2].name = "search_course_content"

\* Whether a registry holds a tool that keeps a provenance list.
HoldsTracker(registry) ==
    \E k \in 1..Len(registry) : TracksSources(registry[k].tool)

\* The provenance list most recently produced by the executions of a log:
\* the entries of the last execution that produced any, or the empty list
\* when a reset followed it or no execution produced one.
RECURSIVE LastProduced(_)
LastProduced(log) ==
    IF log = <<>> THEN <<>>
    ELSE LET earlier == LastProduced(SubSeq(log, 1, Len(log) - 1))
             o == log[Len(log)]
         IN IF o.op = "reset_sources" /\ HoldsTracker(o.tools_before)
            THEN <<>>
            ELSE IF o.op = "execute_tool"
            THEN LET entries == Produced(o.tools_before, o, o.store)
                 IN IF entries # <<>> THEN entries ELSE earlier
            ELSE earlier

Searched ==
    {i \in 1..Len(ops) : ops[i].op = "CourseSearchTool.execute"
                          /\ ~ops[i].store.search.raised}

\* C23: when the result of the store's search carries an error, execute
\* returns exactly that error string, whatever documents the result holds,
\* and makes no call of get_lesson_link.
C23_ErrorReturnedAsIs ==
    \A i \in Searched :
        LET results == ops[i].store.search.value
        IN (results.error.some /\ results.error.v # "")
           => /\ ops[i].out = Ok(results.error.v)
              /\ ops[i].link_calls = <<>>

\* C23 witness: the store reported an error along with a document of
\* lesson 1, and execute returned the error string alone.
C23_Witness ==
    \E i \in Searched :
        /\ ops[i].store.search.value = ErrorWithDocuments
        /\ ops[i].store.link = Ok(Linked)
        /\ ops[i].out = Ok("Search error: boom")
        /\ ops[i].link_calls = <<>>

\* C24, as stated: when the result holds no document and no error, execute
\* returns "No relevant content found<filters>." where the course is named
\* exactly when a course_name argument was given and the lesson exactly when
\* a lesson_number argument was given, whatever their values.
C24_EmptyMessageNamesFilters ==
    \A i \in Searched :
        LET results == ops[i].store.search.value
            input == ops[i].input
        IN (~results.error.some /\ Len(results.documents) = 0)
           => ops[i].out =
                Ok("No relevant content found"
                   \o (IF "course_name" \in DOMAIN input
                       THEN " in course '" \o input.course_name \o "'" ELSE "")
                   \o (IF "lesson_number" \in DOMAIN input
                       THEN " in lesson " \o ToString(input.lesson_number) ELSE "")
                   \o ".")

\* The executions whose search matched documents without an error and which
\* returned.
Successful ==
    {i \in Searched : /\ ~ops[i].store.search.value.error.some
                      /\ Len(ops[i].store.search.value.documents) > 0
                      /\ ~ops[i].out.raised}

\* The text of the blocks of the first n documents of a result, joined by
\* one blank line.
RECURSIVE Blocks(_, _)
Blocks(results, n) ==
    IF n = 0 THEN ""
    ELSE LET meta == results.metadata[n]
             block_text ==
                 (IF "lesson_number" \in DOMAIN meta
                  THEN "[" \o meta.course_title \o " - Lesson "
                         \o ToString(meta.lesson_number) \o "]"
                  ELSE "[" \o meta.course_title \o "]")
                 \o "\n" \o results.documents[n]
         IN IF n = 1 THEN block_text
            ELSE Blocks(results, n - 1) \o "\n\n" \o block_text

\* C25: the text of a successful non-empty search is one block per matched
\* document, in result order, each block the header "[<course title>]" or
\* "[<course title> - Lesson <n>]" (the latter exactly when the metadata has
\* a lesson number, 0 included), a line break and the document, the blocks
\* separated by one blank line.
C25_OneBlockPerDocument ==
    \A i \in Successful :
        LET results == ops[i].store.search.value
        IN ops[i].out = Ok(Blocks(results, Len(results.documents)))

\* C25 witness: three documents, of lesson 2 of one course and lessons 0
\* and 1 of another, rendered in result order.
C25_Witness ==
    \E i \in Successful :
        /\ ops[i].store.search.value = ThreeDocuments
        /\ ops[i].out = Ok("[Other Course - Lesson 2]\nchunk three\n\n[Test Course - Lesson 0]\nchunk one\n\n[Test Course - Lesson 1]\nchunk two")

\* The link get_lesson_link returns for a lesson number, when it returns one.
LinkReturned(store, lesson_num) ==
    IF store.link.raised THEN None
    ELSE IF store.link.value[lesson_num].some /\ store.link.value[lesson_num].v # ""
    THEN store.link.value[lesson_num]
    ELSE None

\* C26: after a successful non-empty search the provenance list has one
\* entry per matched document, in result order, equal chunks giving equal
\* entries; an entry is "<course title>", or "<course title> - Lesson <n>"
\* when the metadata has a lesson number, followed by "|<link>" exactly when
\* get_lesson_link returned a link for that lesson.
C26_OneSourcePerDocument ==
    \A i \in Successful :
        LET results == ops[i].store.search.value
            sources == ops[i].sources_after
        IN /\ Len(sources) = Len(results.documents)
           /\ \A k \in 1..Len(sources) :
                LET meta == results.metadata[k]
                IN sources[k] =
                     IF "lesson_number" \in DOMAIN meta
                     THEN meta.course_title \o " - Lesson " \o ToString(meta.lesson_number)
                            \o (IF LinkReturned(ops[i].store, meta.lesson_number).some
                                THEN "|" \o LinkReturned(ops[i].store, meta.lesson_number).v
                                ELSE "")
                     ELSE meta.course_title

\* C26 witness: a search matched three documents, of which lesson 2 has no
\* link and lesson 0 an empty one; the next matched two chunks of lesson 1
\* and replaced the three entries by two equal entries with the link.
C26_Witness ==
    \E i \in Successful :
        /\ ops[i].store.search.value = SameLesson
        /\ ops[i].sources_before
             = <<"Other Course - Lesson 2", "Test Course - Lesson 0",
                 "Test Course - Lesson 1|https://example.com/lesson1">>
        /\ ops[i].sources_after
             = <<"Test Course - Lesson 1|https://example.com/lesson1",
                 "Test Course - Lesson 1|https://example.com/lesson1">>

\* The executions of CourseOutlineTool in the log for which the store
\* returned a list of course records that all have a title.
Outlined ==
    {i \in 1..Len(ops) :
        /\ ops[i].op = "CourseOutlineTool.execute"
        /\ ~ops[i].store.courses.raised
        /\ \A k \in 1..Len(ops[i].store.courses.value) :
             "title" \in DOMAIN ops[i].store.courses.value[k]}

\* What execute returns when it has chosen a course.
Rendered(course) ==
    IF format_course_outline(course).raised
    THEN ErrorMessage(format_course_outline(course).exc)
    ELSE format_course_outline(course).value

\* The positions of the stored courses whose title equals the input, and of
\* those whose title contains the input or is contained in it, letter case
\* apart.
EqualTitles(courses, input) ==
    {k \in 1..Len(courses) : Lower(courses[k].title) = Lower(input)}
PartTitles(courses, input) ==
    {k \in 1..Len(courses) : \/ Contains(Lower(input), Lower(courses[k].title))
                              \/ Contains(Lower(courses[k].title), Lower(input))}

\* The least position of a non-empty set of positions.
First(positions) == CHOOSE k \in positions : \A j \in positions : k <= j

\* C27: the outline is that of the first course whose title equals the
\* input case-insensitively, even when an earlier course matches as a
\* substring; without such a course, that of the first course whose title
\* contains the input or is contained in it; without one of those either,
\* the outline of no course.
C27_TwoPassMatch ==
    \A i \in Outlined :
        LET courses == ops[i].store.courses.value
            input == ops[i].course_title
        IN IF EqualTitles(courses, input) # {}
           THEN ops[i].out = Ok(Rendered(courses[First(EqualTitles(courses, input))]))
           ELSE IF PartTitles(courses, input) # {}
           THEN ops[i].out = Ok(Rendered(courses[First(PartTitles(courses, input))]))
           ELSE \A k \in 1..Len(courses) : ops[i].out # Ok(Rendered(courses[k]))

\* C27 witness: asked for "mcp" with "MCP: Apps" stored before "MCP", the
\* tool returned the outline of "MCP".
C27_Witness ==
    \E i \in Outlined :
        /\ ops[i].store.courses.value = <<MCPCourse, ShortCourse>>
        /\ ops[i].course_title = <<"m", "c", "p">>
        /\ ops[i].out = Ok("**MCP**\n\n\n**Course Lessons:**\nNo lessons found for this course.\n")

\* The titles of a non-empty list of courses, separated by ", ".
RECURSIVE TitleList(_)
TitleList(courses) ==
    IF Len(courses) = 1 THEN Chars(courses[1].title)
    ELSE TitleList(SubSeq(courses, 1, Len(courses) - 1)) \o ", "
           \o Chars(courses[Len(courses)].title)

\* C28: when the store holds courses and none matches, execute returns a
\* message that names the title asked for and lists the title of every
\* stored course; when the store holds no course it returns "No courses
\* found in the database.".
C28_NoMatchMessages ==
    \A i \in Outlined :
        LET courses == ops[i].store.courses.value
            input == ops[i].course_title
        IN /\ courses = <<>> => ops[i].out = Ok("No courses found in the database.")
           /\ ( /\ courses # <<>>
                /\ EqualTitles(courses, input) = {}
                /\ PartTitles(courses, input) = {} )
              => ops[i].out = Ok("No course found matching '" \o Chars(input)
                                 \o "'. Available courses: " \o TitleList(courses))

\* C28 witness: asked with no course stored, then asked for "zz" with two
\* courses stored.
C28_Witness ==
    /\ Len(ops) = 2
    /\ ops[1].store.courses = Ok(<<>>)
    /\ ops[1].out = Ok("No courses found in the database.")
    /\ ops[2].out = Ok("No course found matching 'zz'. Available courses: Chroma, MCP: Apps")

\* The largest lesson number a stored lesson of the model has.
MaxLessonNumber == 4

\* The course execute chose, for an execution in which a course matched.
Chosen(i) ==
    LET courses == ops[i].store.courses.value
        input == ops[i].course_title
    IN IF EqualTitles(courses, input) # {}
       THEN courses[First(EqualTitles(courses, input))]
       ELSE courses[First(PartTitles(courses, input))]

\* The executions in which a course matched whose lessons, if any, all have
\* a usable number or none.
Formatted ==
    {i \in Outlined :
        /\ PartTitles(ops[i].store.courses.value, ops[i].course_title) # {}
        /\ "lessons" \in DOMAIN Chosen(i) =>
             \A k \in 1..Len(Chosen(i).lessons) :
                 "lesson_number" \in DOMAIN Chosen(i).lessons[k]
                    => Chosen(i).lessons[k].lesson_number.some}

\* Whether a lesson has number n and a title.
Lists(lesson, n) ==
    /\ "lesson_number" \in DOMAIN lesson /\ lesson.lesson_number = Some(n)
    /\ "lesson_title" \in DOMAIN lesson /\ lesson.lesson_title # ""

\* The lines "<n>. <title>" of the lessons with number n, in stored order.
RECURSIVE LinesOf(_, _)
LinesOf(lessons, n) ==
    IF lessons = <<>> THEN ""
    ELSE (IF Lists(Head(lessons), n)
          THEN ToString(n) \o ". " \o Head(lessons).lesson_title \o "\n" ELSE "")
         \o LinesOf(Tail(lessons), n)

\* The lines of the lessons with the numbers 0..n, by ascending number.
RECURSIVE LinesUpTo(_, _)
LinesUpTo(lessons, n) ==
    IF n < 0 THEN "" ELSE LinesUpTo(lessons, n - 1) \o LinesOf(lessons, n)

\* C29: the outline of a matched course ends with the line "<number>.
\* <title>" of every lesson that has a number and a title, once each, by
\* ascending number whatever the stored order, and with no line for any
\* other lesson; a course without lessons gets the line "No lessons found
\* for this course.".
C29_LessonsAscending ==
    \A i \in Formatted :
        LET course == Chosen(i)
            lessons == IF "lessons" \in DOMAIN course THEN course.lessons ELSE <<>>
        IN ops[i].out =
             Ok(OutlineHead(course) \o "\n**Course Lessons:**\n"
                \o (IF lessons = <<>> THEN "No lessons found for this course.\n"
                    ELSE LinesUpTo(lessons, MaxLessonNumber)))

\* C29 witness: the course "Chroma", whose seven lessons are stored as 3, no
\* number, 1, neither, 0, 4 without a title, 2 with an empty title, is
\* listed as 0, 1, 3; and a course with an empty list of lessons gets the
\* explicit line.
C29_Witness ==
    /\ Len(ops) = 2
    /\ ops[1].op = "CourseOutlineTool.execute"
    /\ ops[1].store.courses = Ok(<<ChromaCourse, MCPCourse>>)
    /\ ops[1].out = Ok("**Chroma**\n\n**Course URL:** <backtick>chr<backtick>\n\n**Course Lessons:**\n0. Intro\n1. First\n3. Third\n")
    /\ ops[2].store.courses = Ok(<<EmptyCourse>>)
    /\ ops[2].out = Ok("**Chroma**\n\n**Instructor:** Ann\n\n**Course Lessons:**\nNo lessons found for this course.\n")

\* The executions of CourseOutlineTool in the log.
OutlineCalls == {i \in 1..Len(ops) : ops[i].op = "CourseOutlineTool.execute"}

\* Whether the matching of an input against stored courses reaches a course
\* record without a title: one is stored, and no course before the first
\* such record has the input as its title.
ReachesUntitled(courses, input) ==
    LET untitled == {k \in 1..Len(courses) : "title" \notin DOMAIN courses[k]}
    IN /\ untitled # {}
       /\ \A k \in 1..(First(untitled) - 1) : Lower(courses[k].title) # Lower(input)

\* Whether the lessons of a course hold a number that cannot be ordered.
UnusableNumber(course) ==
    /\ "lessons" \in DOMAIN course
    /\ Len(course.lessons) >= 2
    /\ \E k \in 1..Len(course.lessons) :
         /\ "lesson_number" \in DOMAIN course.lessons[k]
         /\ ~course.lessons[k].lesson_number.some

\* C30: no execution of CourseOutlineTool raises; when the store throws,
\* when the matching reaches a course record without a title, and when the
\* lessons of the matched course hold an unusable number, the result is the
\* string "Error retrieving course outline: <cause>".
C30_OutlineNeverRaises ==
    \A i \in OutlineCalls :
        /\ ~ops[i].out.raised
        /\ ops[i].store.courses.raised
             => ops[i].out = Ok("Error retrieving course outline: "
                                \o ops[i].store.courses.exc)
        /\ ( /\ ~ops[i].store.courses.raised
             /\ ReachesUntitled(ops[i].store.courses.value, ops[i].course_title) )
             => ops[i].out = Ok("Error retrieving course outline: 'title'")
        /\ ( /\ i \in Outlined
             /\ PartTitles(ops[i].store.courses.value, ops[i].course_title) # {}
             /\ UnusableNumber(Chosen(i)) )
             => ops[i].out = Ok("Error retrieving course outline: '<' not supported between instances of 'int' and 'NoneType'")

\* C30 witness: one execution met a course record without a title, another
\* a lesson whose number is null, and both returned the error text.
C30_Witness ==
    /\ \E i \in OutlineCalls :
         /\ ops[i].store.courses = Ok(<<ShortCourse, UntitledCourse>>)
         /\ ops[i].out = Ok("Error retrieving course outline: 'title'")
    /\ \E i \in OutlineCalls :
         /\ ops[i].store.courses = Ok(<<NullNumberCourse, ShortCourse>>)
         /\ ops[i].out = Ok("Error retrieving course outline: '<' not supported between instances of 'int' and 'NoneType'")

\* What is read from the first block of a response: its text, or the
\* sentinel string when there is no first block or it has no text.
FirstBlockText(response) ==
    IF Len(response.content) >= 1 /\ "text" \in DOMAIN response.content[1]
    THEN response.content[1].text
    ELSE "Unable to process response"

\* C31: when the first response asks for tools and no tool manager was
\* given, the run has ended with what is read from the first block of that
\* response, after one gateway call and no dispatch.
C31_NoManagerNoDispatch ==
    ( /\ pc \notin {"idle", "first_call"}
      /\ ~tool_manager
      /\ responses[1].stop_reason = "tool_use" )
    => /\ pc = "done"
       /\ result = Ok(FirstBlockText(responses[1]))
       /\ dispatches = <<>>
       /\ Len(calls) = 1 /\ Len(responses) = 1

\* C31 witness: tools were offered without a manager, the first response
\* asked for a search in its first block, and the run returned the sentinel.
C31_Witness ==
    /\ pc = "done" /\ ~tool_manager /\ tools.some
    /\ responses = <<Response("tool_use", <<ToolUseBlock("toolu_1", SearchCall)>>)>>
    /\ result = Ok("Unable to process response")
    /\ dispatches = <<>> /\ Len(calls) = 1

\* C32: the generator's base parameters are at all times what __init__
\* built, and the first gateway call of every run, whatever runs came before
\* it, carries these parameters and one turn, the query of that run.
C32_BaseParamsKept ==
    /\ base_params = InitBaseParams
    /\ Len(calls) >= 1 =>
         /\ calls[1].messages = <<[role |-> "user", content |-> query]>>
         /\ \A key \in DOMAIN InitBaseParams : calls[1][key] = InitBaseParams[key]
         /\ DOMAIN calls[1] \subseteq
              (DOMAIN InitBaseParams \cup {"messages", "system", "tools", "tool_choice"})

\* C32 witness: a run has sent its first call after an earlier run that made
\* a search and ended by an exception, so that its sources are still there.
C32_Witness ==
    /\ pc = "first_call"
    /\ last_sources # <<>>
    /\ Len(calls) = 1
    /\ calls[1].messages = <<[role |-> "user", content |-> "What is MCP?"]>>
    /\ base_params = [model |-> "claude", temperature |-> 0, max_tokens |-> 800]

\* A response with stop_reason tool_use and no tool_use block.
Blockless(response) ==
    response.stop_reason = "tool_use" /\ Len(ToolUses(response)) = 0

\* The i-th call of the run is the final call of lines 143-148, sent without
\* tools; its response is returned without being looked at.
IsFinalCall(i) == i > 1 /\ "tools" \notin DOMAIN calls[i]

\* C33: a response with stop_reason tool_use and no tool_use block, received
\* by the first call or by a call of the round loop, is the last response of
\* its run: no call and no dispatch follows it, no tool-result turn follows
\* the assistant turn of its round, and the run returns its first-block text
\* or the sentinel.
C33_BlocklessEndsRun ==
    \A i \in 1..Len(responses) :
        (Blockless(responses[i]) /\ ~IsFinalCall(i)) =>
            /\ i = Len(responses)
            /\ Len(calls) = i
            /\ \A d \in 1..Len(dispatches) : dispatches[d].calls_made < i
            /\ Len(messages) <= 2 * i
            /\ pc \in {"execute", "check"} => tool_results = <<>>
            /\ pc # "raised"
            /\ pc = "done" => result = Ok(FirstBlockText(responses[i]))

\* C33 witness: after a first round whose search was dispatched and sent
\* back, the second response asks for tools without naming one; the run has
\* ended with its text after two calls, the assistant turn being the last.
C33_Witness ==
    /\ pc = "done"
    /\ Len(responses) = 2
    /\ Blockless(responses[2])
    /\ round_count = 2
    /\ Len(dispatches) >= 1
    /\ Len(calls) = 2
    /\ Len(messages) = 4
    /\ messages[4].role = "assistant"
    /\ result = Ok("looking a")

\* The number of dispatches of round r among the first d of the run.
DispatchedInRound(r, d) ==
    Cardinality({e \in 1..d : dispatches[e].round = r})

\* C34: the j-th dispatch of a round is that of the j-th request of the
\* round's response; a dispatch that throws is the last of its run, so the
\* requests after it are not dispatched, and its round forwards nothing:
\* the result list is empty, no call follows, the run returns the response's
\* first-block text or the sentinel.
C34_DispatchInOrderUntilThrow ==
    \A d \in 1..Len(dispatches) :
        LET r == dispatches[d].round
            k == DispatchedInRound(r, d)
        IN /\ r \in 1..Len(responses)
           /\ k <= Len(ToolUses(responses[r]))
           /\ dispatches[d].id = ToolUses(responses[r])[k].id
           /\ dispatches[d].name = ToolUses(responses[r])[k].name
           /\ d < Len(dispatches) => ~dispatches[d].out.raised
           /\ dispatches[d].out.raised =>
                /\ DispatchedInRound(r, Len(dispatches)) = k
                /\ pc \in {"check", "done"}
                /\ tool_results = <<>>
                /\ Len(calls) = r
                /\ Len(messages) = 2 * r
                /\ pc = "done" => result = Ok(FirstBlockText(responses[r]))

\* C34 witness: the second request of a round threw after the first, a
\* search, had succeeded; two dispatches were attempted and nothing is left
\* of the first one's result.
C34_Witness ==
    /\ pc = "check"
    /\ Len(dispatches) = 2
    /\ dispatches[1].round = dispatches[2].round
    /\ ~dispatches[1].out.raised
    /\ dispatches[1].ran = Some("CourseSearchTool")
    /\ dispatches[2].out.raised
    /\ tool_results = <<>>

\* Dispatch d1 is a search that returned and wrote sources, and dispatch d2,
\* later in the same round, threw.
AbortedAfterSearch(d1, d2) ==
    /\ d1 < d2
    /\ dispatches[d1].round = dispatches[d2].round
    /\ dispatches[d1].ran = Some("CourseSearchTool")
    /\ ~dispatches[d1].out.raised
    /\ dispatches[d1].produced # <<>>
    /\ dispatches[d2].out.raised

\* C35: when a search of a round has written sources and a later dispatch of
\* the round throws, the round forwards nothing (no call follows the one that
\* brought the requests), yet last_sources holds what the search wrote and
\* get_last_sources returns it once the run has returned.
C35_AbortedRoundKeepsSources ==
    \A d1, d2 \in 1..Len(dispatches) :
        AbortedAfterSearch(d1, d2) =>
            /\ Len(calls) = dispatches[d1].round
            /\ tool_results = <<>>
            /\ last_sources = dispatches[d1].produced
            /\ pc = "done" =>
                 get_last_sources(manager_tools, last_sources) = dispatches[d1].produced

\* C35 witness: a run has returned after a round whose search wrote two
\* sources and whose second request threw; the one call of the run is the
\* first, and the two sources are what get_last_sources returns.
C35_Witness ==
    /\ pc = "done"
    /\ Len(dispatches) = 2
    /\ AbortedAfterSearch(1, 2)
    /\ Len(calls) = 1
    /\ Len(get_last_sources(manager_tools, last_sources)) = 2

\* The "Final round" suffix of _build_round_system_prompt.
FinalRoundContext(current, count) ==
    "\n\nFinal round (" \o ToString(current) \o " of " \o ToString(count)
      \o "): This is your last opportunity to use tools before providing your final answer."

\* C36: the first call and the tool-less final call of a run carry the
\* run's base system content; the i-th call otherwise carries that content
\* followed by the one suffix "Round i-1 of max_rounds", not by the suffixes
\* of earlier rounds as well; no call carries a "Final round" suffix.
C36_OneRoundSuffix ==
    \A i \in 1..Len(calls) :
        /\ calls[1].system = ExpectedSystem
        /\ IsFinalCall(i) => calls[i].system = ExpectedSystem
        /\ (i > 1 /\ ~IsFinalCall(i)) =>
             /\ i - 1 < max_rounds
             /\ calls[i].system = ExpectedSystem \o RoundContext(i - 1, max_rounds)
        /\ \A r \in 0..DeepRounds, base \in {calls[j].system : j \in 1..Len(calls)} :
             calls[i].system # base \o FinalRoundContext(r, max_rounds)

\* C36 witness: a run of three rounds has sent its four calls: the base
\* content, "Round 1 of 3", "Round 2 of 3" on the base content alone, and the
\* base content again for the final call without tools.
C36_Witness ==
    /\ max_rounds = 3
    /\ Len(calls) = 4
    /\ conversation_history = None
    /\ calls[1].system = "SYSTEM_PROMPT"
    /\ calls[2].system = "SYSTEM_PROMPT\n\nRound 1 of 3: You can make additional tool calls if needed for complex queries requiring multiple searches or comparisons."
    /\ calls[3].system = "SYSTEM_PROMPT\n\nRound 2 of 3: You can make additional tool calls if needed for complex queries requiring multiple searches or comparisons."
    /\ calls[4].system = "SYSTEM_PROMPT"
    /\ "tools" \notin DOMAIN calls[4]

\* Tools were passed to the run, so that line 93 attached them to its call.
ToolsSupplied == tools.some /\ tools.v # <<>>

\* C37: in a run with max_rounds <= 0 that was given tools and whose first
\* response has stop_reason tool_use, no tool is dispatched and the first
\* call, which carries the tool list and the automatic tool choice, stays the
\* only one; the run returns the response's first-block text or the sentinel.
C37_NoRoundsNoDispatch ==
    (max_rounds <= 0 /\ ToolsSupplied /\ Len(responses) >= 1
       /\ responses[1].stop_reason = "tool_use") =>
        /\ dispatches = <<>>
        /\ Len(calls) = 1
        /\ Len(responses) = 1
        /\ calls[1].tools = tools
        /\ calls[1].tool_choice = [type |-> "auto"]
        /\ pc \in {"loop", "done"}
        /\ pc = "done" => result = Ok(FirstBlockText(responses[1]))

\* C37 witness: a run with a tool manager, tools and max_rounds = -1 has
\* returned the sentinel for a first response that is one search request.
C37_Witness ==
    /\ pc = "done"
    /\ max_rounds = -1
    /\ tool_manager
    /\ ToolsSupplied
    /\ responses = <<Response("tool_use", <<ToolUseBlock("toolu_1", SearchCall)>>)>>
    /\ Len(calls) = 1
    /\ dispatches = <<>>
    /\ result = Ok("Unable to process response")

\* The name under which register_tool files a tool.
DefinedName(tool) == get_tool_definition(tool).name

\* Operation i registered a tool under a name that was registered already.
Reregisters(i) ==
    /\ ops[i].op = "register_tool"
    /\ ~ops[i].out.raised
    /\ DefinedName(ops[i].tool) \in Registered(ops[i].tools_before)

\* The registrations of a tool under tool_name before operation i.
RegistrationsBefore(tool_name, i) ==
    {j \in 1..(i - 1) : /\ ops[j].op = "register_tool"
                        /\ ~ops[j].out.raised
                        /\ DefinedName(ops[j].tool) = tool_name}

\* C38: registering a tool under a registered name leaves every name at its
\* place, every other name with its tool, and puts the new tool under the
\* name; execute_tool for the name then runs the new tool, as every
\* execute_tool runs the tool registered last under its name; and
\* get_tool_definitions returns one schema per distinct name, the name's
\* schema at the place it had.
C38_ReregisterReplaces ==
    /\ Len(get_tool_definitions(manager_tools)) = Cardinality(Registered(manager_tools))
    /\ \A i \in 1..Len(ops) :
         /\ Reregisters(i) =>
              LET before == ops[i].tools_before
                  after == ops[i].tools_after
                  tool_name == DefinedName(ops[i].tool)
              IN /\ Len(after) = Len(before)
                 /\ \A j \in 1..Len(before) :
                      /\ after[j].name = before[j].name
                      /\ after[j].tool = (IF before[j].name = tool_name
                                          THEN ops[i].tool ELSE before[j].tool)
                      /\ get_tool_definitions(after)[j].name = before[j].name
                 /\ Len(get_tool_definitions(after)) = Cardinality(Registered(after))
                 /\ \A call \in ManagerCalls, store \in StoreBehaviours :
                      call.name = tool_name =>
                        execute_tool(after, tool_name, call.input, store, <<>>).ran
                          = Some(ops[i].tool)
         /\ (ops[i].op = "execute_tool" /\ ops[i].name \in Registered(ops[i].tools_before)) =>
              \E j \in RegistrationsBefore(ops[i].name, i) :
                  /\ \A k \in RegistrationsBefore(ops[i].name, i) : k <= j
                  /\ ops[i].ran = Some(ops[j].tool)

\* C38 witness: the search tool, then the outline tool, then a stub under
\* the search tool's name have been registered: two names, two schemas, the
\* stub at the first place.
C38_Witness ==
    /\ Len(ops) = 3
    /\ Reregisters(3)
    /\ ops[1].tool = "CourseSearchTool"
    /\ ops[2].tool = "CourseOutlineTool"
    /\ ops[3].tool = "StubTool"
    /\ manager_tools = <<[name |-> "search_course_content", tool |-> "StubTool"],
                         [name |-> "get_course_outline", tool |-> "CourseOutlineTool"]>>
    /\ Len(get_tool_definitions(manager_tools)) = 2

\* The lesson has a lesson number and a title that is not empty.
Renderable(lesson) ==
    /\ "lesson_number" \in DOMAIN lesson /\ lesson.lesson_number.some
    /\ "lesson_title" \in DOMAIN lesson /\ lesson.lesson_title # ""

\* One line "<number>. <title>" for each renderable lesson of the sequence.
RECURSIVE RenderableLines(_)
RenderableLines(lessons) ==
    IF lessons = <<>> THEN ""
    ELSE (IF Renderable(Head(lessons))
          THEN ToString(Head(lessons).lesson_number.v) \o ". "
                 \o Head(lessons).lesson_title \o "\n"
          ELSE "")
         \o RenderableLines(Tail(lessons))

\* C39: the lessons section of the outline of a course with lessons holds a
\* line for each lesson that has a number and a non-empty title and for no
\* other lesson; when no lesson has both, the section is its heading alone,
\* without the line "No lessons found for this course.".
C39_RenderedIffNumberAndTitle ==
    \A i \in Formatted :
        LET course == Chosen(i)
            lessons == IF "lessons" \in DOMAIN course THEN course.lessons ELSE <<>>
            head == OutlineHead(course) \o "\n**Course Lessons:**\n"
        IN lessons # <<>> =>
             /\ ops[i].out = Ok(head \o RenderableLines(sorted_lessons(lessons).value))
             /\ (\A k \in 1..Len(lessons) : ~Renderable(lessons[k])) =>
                  /\ ops[i].out = Ok(head)
                  /\ ops[i].out # Ok(head \o "No lessons found for this course.\n")

\* C39 witness: the outline of a course with three lessons, one with a title
\* only, one with a number only and one with an empty title, ends with the
\* heading of the lessons section; that of the course "Chroma", which has
\* such lessons among others, lists the three that have both.
C39_Witness ==
    /\ Len(ops) = 2
    /\ ops[1].op = "CourseOutlineTool.execute"
    /\ ops[1].store.courses = Ok(<<HollowCourse>>)
    /\ ops[1].out = Ok("**Chroma**\n\n\n**Course Lessons:**\n")
    /\ ops[2].store.courses = Ok(<<ChromaCourse, MCPCourse>>)
    /\ ops[2].out = Ok("**Chroma**\n\n**Course URL:** <backtick>chr<backtick>\n\n**Course Lessons:**\n0. Intro\n1. First\n3. Third\n")

====
